---- MODULE Spec2Model ----
(***************************************************************************)
(* Model of the persistent ledger storage (RocksDB backend):               *)
(* crates/apps/src/lib/node/ledger/storage/rocksdb.rs                      *)
(*                                                                         *)
(* The store is five column families, each an ordered map from key to     *)
(* bytes.  A write batch is an overlay of puts and deletes per column     *)
(* family that exec_batch applies atomically (the last operation staged   *)
(* on a key wins, as in a RocksDB WriteBatch).                             *)
(***************************************************************************)
EXTENDS Integers, Sequences, FiniteSets, TLC

\* ------------------------------------------------------------------ bounds
\* Highest block height the block applier builds.
MaxHeight == 3
\* Highest block height built in the runs that write subspace keys and roll
\* back.
MaxRollbackHeight == 2

\* ------------------------------------------------------------- input sets
\* Subspace keys (names taken from test_rollback / test_diffs).
Keys == {"add", "delete"}
\* Byte strings written to the subspace (two different lengths).
Vals == {<<1>>, <<2, 2>>}
\* Transaction hashes for replay protection.
Hashes == {"tx1", "tx2", "tx3"}
\* Values of the encoded metadata a block carries.
MetaVals == {1, 2}
\* Merkle subtree store types (StoreType::iter_subtrees).
SubtreeTypes == {"account", "ibc"}

\* ---------------------------------------------------------------- options
None == <<>>
Some(v) == <<v>>
IsSome(o) == o # <<>>
Unwrap(o) == o[1]

\* ------------------------------------------------------------- constants
OLD_DIFF_PREFIX == "old"
NEW_DIFF_PREFIX == "new"
\* BlockHeight::first()
FirstHeight == 1

\* --------------------------------------------------------------- the maps
EmptyMap == [x \in {} |-> x]

EmptyDB ==
    [subspace |-> EmptyMap, diffs |-> EmptyMap, state |-> EmptyMap,
     block |-> EmptyMap, replay |-> EmptyMap]

\* rocksdb get_cf on column family cf of store d
get_cf(d, cf, key) == IF key \in DOMAIN d[cf] THEN Some(d[cf][key]) ELSE None

\* WriteBatch::put_cf / delete_cf: the latest staged operation on a key wins
put_cf(b, cf, key, v) == [b EXCEPT ![cf] = (key :> Some(v)) @@ @]
delete_cf(b, cf, key) == [b EXCEPT ![cf] = (key :> None) @@ @]

\* The effect of one column family's staged operations on its map
WriteCF(m, ov) ==
    LET dels == {y \in DOMAIN ov : ov[y] = None}
        puts == {y \in DOMAIN ov : ov[y] # None}
    IN  [x \in (DOMAIN m \ dels) \cup puts |->
            IF x \in puts THEN Unwrap(ov[x]) ELSE m[x]]

\* rocksdb DB::write(batch): every column family is updated atomically
write_batch(d, b) ==
    [subspace |-> WriteCF(d.subspace, b.subspace),
     diffs    |-> WriteCF(d.diffs, b.diffs),
     state    |-> WriteCF(d.state, b.state),
     block    |-> WriteCF(d.block, b.block),
     replay   |-> WriteCF(d.replay, b.replay)]

\* ------------------------------------------------------------- key codec
\* old_and_new_diff_key: "{h}/old/{key}" and "{h}/new/{key}"
old_diff_key(key, height) == <<height, OLD_DIFF_PREFIX, key>>
new_diff_key(key, height) == <<height, NEW_DIFF_PREFIX, key>>

\* BLOCK keys "{h}/{name}", "results/{h}", and the Merkle tree prefixes
block_key(height, name) == <<"height", height, name>>
results_key(height) == <<"results", height, "">>
base_tree_key(height, part) == <<"base_tree", height, part>>
subtree_key(st, epoch, part) == <<st, epoch, part>>

\* replay protection keys "last/{hash}", "buffer/{hash}", "all/{hash}"
last_key(hash) == <<"last", hash>>
buffer_key(hash) == <<"buffer", hash>>
all_key(hash) == <<"all", hash>>

\* BlockHeight::prev_height
prev_height(height) == height - 1

\* ------------------------------------------------------------- variables
VARIABLES
    db,        \* the committed store: one map per column family
    batch,     \* the write batch under assembly (RocksDBWriteBatch)
    height,    \* height of the block the applier is building
    touched,   \* history: the last operation on each key at `height`
    volatile,  \* history: keys written at `height` with persist_diffs = false
    log,       \* history: <<h, key, value or None>> of every committed block
    written,   \* history: the last executed write(s) and their height
    snaps,     \* history: the store after each of the last commits in a row
    rb         \* history: the last rollback call and the stores around it

vars == <<db, batch, height, touched, volatile, log, written, snaps, rb>>

EmptyBatch == EmptyDB

\* ---------------------------------------------------------- the diff log
\* The backward walk of a persist_diffs = false write: from height h down to
\* BlockHeight::first(), delete the old/new diff of the first height that has
\* either, reading the committed store d.
RECURSIVE remove_last_diffs(_, _, _, _)
remove_last_diffs(d, b, key, h) ==
    IF ~(h >= FirstHeight) THEN b
    ELSE LET has_old_diff == IsSome(get_cf(d, "diffs", old_diff_key(key, h)))
             has_new_diff == IsSome(get_cf(d, "diffs", new_diff_key(key, h)))
             b1 == IF has_old_diff
                   THEN delete_cf(b, "diffs", old_diff_key(key, h)) ELSE b
             b2 == IF has_new_diff
                   THEN delete_cf(b1, "diffs", new_diff_key(key, h)) ELSE b1
         IN  IF has_old_diff \/ has_new_diff THEN b2
             ELSE remove_last_diffs(d, b2, key, prev_height(h))

\* The old or the new diff of the key exists at height h
has_diff(d, key, h) ==
    \/ IsSome(get_cf(d, "diffs", old_diff_key(key, h)))
    \/ IsSome(get_cf(d, "diffs", new_diff_key(key, h)))

\* The values the loop variable `height` of the backward walk takes from
\* `h` on: the heights it examines and, when none of them has a diff, the
\* height below first() that ends the loop
RECURSIVE walk_down(_, _, _)
walk_down(d, key, h) ==
    IF ~(h >= FirstHeight) THEN <<h>>
    ELSE IF has_diff(d, key, h) THEN <<h>>
    ELSE <<h>> \o walk_down(d, key, prev_height(h))

\* A backward walk that does not test `height > BlockHeight::first()`
backward_walk_unguarded(d, key, h, persist_diffs) ==
    IF ~persist_diffs THEN walk_down(d, key, prev_height(h)) ELSE <<>>

\* The backward walk of write_subspace_diff and batch_write_subspace_diff
\* for a write at height h
backward_walk(d, key, h, persist_diffs) ==
    IF ~persist_diffs /\ h > FirstHeight
    THEN walk_down(d, key, prev_height(h))
    ELSE <<>>

\* A diff writer that removes the diffs of the previous write whatever the
\* persist_diffs flag
write_diff_always_pruning(d, b, h, key, old_value, new_value, persist_diffs) ==
    LET b1 == IF IsSome(old_value)
              THEN put_cf(b, "diffs", old_diff_key(key, h), Unwrap(old_value))
              ELSE b
        b2 == IF IsSome(new_value)
              THEN put_cf(b1, "diffs", new_diff_key(key, h), Unwrap(new_value))
              ELSE b1
    IN  IF h > FirstHeight
        THEN remove_last_diffs(d, b2, key, prev_height(h))
        ELSE b2

\* A diff writer that looks for the last diffs at the previous height only
write_diff_pruning_one_height(d, b, h, key, old_value, new_value, persist_diffs) ==
    LET b1 == IF IsSome(old_value)
              THEN put_cf(b, "diffs", old_diff_key(key, h), Unwrap(old_value))
              ELSE b
        b2 == IF IsSome(new_value)
              THEN put_cf(b1, "diffs", new_diff_key(key, h), Unwrap(new_value))
              ELSE b1
    IN  IF ~persist_diffs /\ h > FirstHeight
        THEN delete_cf(delete_cf(b2, "diffs", old_diff_key(key, prev_height(h))),
                       "diffs", new_diff_key(key, prev_height(h)))
        ELSE b2

\* A diff writer that records no old value when the diffs do not persist
write_diff_dropping_old(d, b, h, key, old_value, new_value, persist_diffs) ==
    LET b1 == IF IsSome(old_value) /\ persist_diffs
              THEN put_cf(b, "diffs", old_diff_key(key, h), Unwrap(old_value))
              ELSE b
        b2 == IF IsSome(new_value)
              THEN put_cf(b1, "diffs", new_diff_key(key, h), Unwrap(new_value))
              ELSE b1
    IN  IF ~persist_diffs /\ h > FirstHeight
        THEN remove_last_diffs(d, b2, key, prev_height(h))
        ELSE b2

\* batch_write_subspace_diff
batch_write_subspace_diff(d, b, h, key, old_value, new_value, persist_diffs) ==
    LET b1 == IF IsSome(old_value)
              THEN put_cf(b, "diffs", old_diff_key(key, h), Unwrap(old_value))
              ELSE b
        b2 == IF IsSome(new_value)
              THEN put_cf(b1, "diffs", new_diff_key(key, h), Unwrap(new_value))
              ELSE b1
    IN  IF ~persist_diffs /\ h > FirstHeight
        THEN remove_last_diffs(d, b2, key, prev_height(h))
        ELSE b2

\* --------------------------------------------------------- subspace store
\* read_subspace_val
read_subspace_val(d, key) == get_cf(d, "subspace", key)

\* A write that records the diffs and leaves the value itself unwritten
batch_write_diffs_only(d, b, h, key, value, persist_diffs) ==
    batch_write_subspace_diff(d, b, h, key, get_cf(d, "subspace", key),
                              Some(value), persist_diffs)

\* A write that never records the value it replaces
batch_write_without_old_diff(d, b, h, key, value, persist_diffs) ==
    put_cf(batch_write_subspace_diff(d, b, h, key, None, Some(value),
                                     persist_diffs),
           "subspace", key, value)

\* A write that takes the replaced value from the batch when the batch
\* holds one for the key
batch_write_old_from_batch(d, b, h, key, value, persist_diffs) ==
    LET old == IF key \in DOMAIN b.subspace THEN b.subspace[key]
               ELSE get_cf(d, "subspace", key)
        b1 == batch_write_subspace_diff(d, b, h, key, old, Some(value),
                                        persist_diffs)
    IN  put_cf(b1, "subspace", key, value)

\* batch_write_subspace_val: the batch after the call
batch_write_subspace_val(d, b, h, key, value, persist_diffs) ==
    LET old == get_cf(d, "subspace", key)
        b1 == batch_write_subspace_diff(d, b, h, key, old, Some(value),
                                        persist_diffs)
    IN  put_cf(b1, "subspace", key, value)

\* A delete that records no diff
batch_delete_without_diff(d, b, h, key, persist_diffs) ==
    delete_cf(b, "subspace", key)

\* batch_delete_subspace_val: the batch after the call
batch_delete_subspace_val(d, b, h, key, persist_diffs) ==
    LET prev == get_cf(d, "subspace", key)
        b1 == IF IsSome(prev)
              THEN batch_write_subspace_diff(d, b, h, key, prev, None,
                                             persist_diffs)
              ELSE b
    IN  delete_cf(b1, "subspace", key)

\* write_subspace_val: the store after the call (every put and delete of the
\* non-batched variant is applied to the store at once; the walk of
\* write_subspace_diff reads heights below h, which the puts at h leave alone)
write_subspace_val(d, h, key, value, persist_diffs) ==
    write_batch(d, batch_write_subspace_val(d, EmptyBatch, h, key, value,
                                            persist_diffs))

\* delete_subspace_val: the store after the call
delete_subspace_val(d, h, key, persist_diffs) ==
    write_batch(d, batch_delete_subspace_val(d, EmptyBatch, h, key,
                                             persist_diffs))

\* write_subspace_val: the size difference it returns
write_subspace_val_size_diff(d, key, value) ==
    LET prev_value == get_cf(d, "subspace", key)
    IN  IF IsSome(prev_value) THEN Len(value) - Len(Unwrap(prev_value))
        ELSE Len(value)

\* A batched write that measures the value the batch holds for the key
batch_write_size_diff_of_staged(d, b, key, value) ==
    LET old_value == IF key \in DOMAIN b.subspace THEN b.subspace[key]
                     ELSE get_cf(d, "subspace", key)
    IN  IF IsSome(old_value) THEN Len(value) - Len(Unwrap(old_value))
        ELSE Len(value)

\* batch_write_subspace_val: the size difference it returns
batch_write_subspace_val_size_diff(d, b, key, value) ==
    LET old_value == get_cf(d, "subspace", key)
    IN  IF IsSome(old_value) THEN Len(value) - Len(Unwrap(old_value))
        ELSE Len(value)

\* A delete that returns the change of the stored size
delete_size_diff_signed(d, key) ==
    LET prev_value == get_cf(d, "subspace", key)
    IN  IF IsSome(prev_value) THEN 0 - Len(Unwrap(prev_value)) ELSE 0

\* delete_subspace_val: the number it returns (prev_len)
delete_subspace_val_size_diff(d, key) ==
    LET prev_value == get_cf(d, "subspace", key)
    IN  IF IsSome(prev_value) THEN Len(Unwrap(prev_value)) ELSE 0

\* batch_delete_subspace_val: the number it returns (prev_len)
batch_delete_subspace_val_size_diff(d, b, key) ==
    LET prev_value == get_cf(d, "subspace", key)
    IN  IF IsSome(prev_value) THEN Len(Unwrap(prev_value)) ELSE 0

\* ------------------------------------------------------ historical reader
\* The loop of read_subspace_val_with_height from raw_height on
RECURSIVE read_successors(_, _, _, _)
read_successors(d, key, raw_height, last_height) ==
    LET old_val == get_cf(d, "diffs", old_diff_key(key, raw_height))
    IN  IF IsSome(old_val) THEN old_val
        ELSE IF IsSome(get_cf(d, "diffs", new_diff_key(key, raw_height)))
             THEN None
             ELSE IF raw_height >= last_height
                  THEN read_subspace_val(d, key)
                  ELSE read_successors(d, key, raw_height + 1, last_height)

\* The values raw_height takes in the loop of
\* read_subspace_val_with_height from raw_height on
RECURSIVE forward_walk(_, _, _, _)
forward_walk(d, key, raw_height, last_height) ==
    IF IsSome(get_cf(d, "diffs", old_diff_key(key, raw_height))) THEN <<raw_height>>
    ELSE IF IsSome(get_cf(d, "diffs", new_diff_key(key, raw_height)))
         THEN <<raw_height>>
         ELSE IF raw_height >= last_height THEN <<raw_height>>
              ELSE <<raw_height>>
                   \o forward_walk(d, key, raw_height + 1, last_height)

\* A reader that skips the walk over the successor heights
read_without_successors(d, key, h, last_height) ==
    LET new_val == get_cf(d, "diffs", new_diff_key(key, h))
    IN  IF IsSome(new_val) THEN new_val
        ELSE IF IsSome(get_cf(d, "diffs", old_diff_key(key, h))) THEN None
             ELSE read_subspace_val(d, key)

\* read_subspace_val_with_height
read_subspace_val_with_height(d, key, h, last_height) ==
    LET new_val == get_cf(d, "diffs", new_diff_key(key, h))
    IN  IF IsSome(new_val) THEN new_val
        ELSE IF IsSome(get_cf(d, "diffs", old_diff_key(key, h))) THEN None
             ELSE read_successors(d, key, h + 1, last_height)

\* --------------------------------------------------------- update visitor
\* An overwrite that leaves the diffs alone
overwrite_entry_without_diff(d, b, h, cf, key, new_value) ==
    LET stored == get_cf(d, "state", <<"height">>)
    IN  IF stored = None THEN [result |-> "err", batch |-> b]
        ELSE IF (IF IsSome(h) THEN Unwrap(h) ELSE Unwrap(stored))
                    # Unwrap(stored)
             THEN [result |-> "todo", batch |-> b]
             ELSE [result |-> "ok", batch |-> put_cf(b, cf, key, new_value)]

\* overwrite_entry: Err without a stored height, the todo!() panic for a
\* height other than the stored one, else the batch with the value put
\* and, for SUBSPACE, the new diff of the stored height
overwrite_entry(d, b, h, cf, key, new_value) ==
    LET stored == get_cf(d, "state", <<"height">>)
        last_height == Unwrap(stored)
        desired_height == IF IsSome(h) THEN Unwrap(h) ELSE last_height
        b1 == put_cf(b, cf, key, new_value)
    IN  IF stored = None THEN [result |-> "err", batch |-> b]
        ELSE IF desired_height # last_height
             THEN [result |-> "todo", batch |-> b]
             ELSE [result |-> "ok",
                   batch |-> IF cf = "subspace"
                             THEN put_cf(b1, "diffs",
                                         new_diff_key(key, last_height),
                                         new_value)
                             ELSE b1]

\* ------------------------------------------------- decimal height strings
\* The decimal digits of a height, as it is rendered into a key
RECURSIVE Digits(_)
Digits(n) == IF n < 10 THEN <<n>> ELSE Append(Digits(n \div 10), n % 10)

IsPrefix(s, t) == Len(s) <= Len(t) /\ SubSeq(t, 1, Len(s)) = s

\* make_iter_read_opts(Some(prefix)) with IteratorMode::From(prefix): the
\* keys from "{prefix}" up to the prefix with its last byte incremented, which
\* are the keys that start with the prefix.  For the prefix "{h}" of
\* delete_keys these are the height-prepended keys of every height whose
\* decimal form starts with the digits of h.
in_height_prefix(h, entry_height) == IsPrefix(Digits(h), Digits(entry_height))

\* ------------------------------------------------------------ block state
\* Epochs::get_epoch: the epoch of a block height, counting the first block
\* heights of the epochs that start at or below it
RECURSIVE count_epochs(_, _, _)
count_epochs(rest, block_height, epoch) ==
    IF rest = <<>> THEN epoch
    ELSE IF block_height < Head(rest) THEN epoch
         ELSE count_epochs(Tail(rest), block_height, epoch + 1)

get_epoch(pred_epochs, block_height) ==
    IF pred_epochs = <<>> THEN None
    ELSE Some(count_epochs(Tail(pred_epochs), block_height, 0))

\* The names of the STATE keys add_block_to_batch shadows under pred/
ShadowedKeys ==
    {"next_epoch_min_start_height", "next_epoch_min_start_time",
     "update_epoch_blocks_delay", "tx_queue"}

state_key(name) == <<name>>
pred_key(name) == <<"pred", name>>

\* A shadow that is written from the new value
shadow_new_value_and_put(d, b, name, value) ==
    put_cf(put_cf(b, "state", pred_key(name), value),
           "state", state_key(name), value)

\* "Write the predecessor value for rollback", then the new value
shadow_and_put(d, b, name, value) ==
    LET current_value == get_cf(d, "state", state_key(name))
        b1 == IF IsSome(current_value)
              THEN put_cf(b, "state", pred_key(name), Unwrap(current_value))
              ELSE b
    IN  put_cf(b1, "state", state_key(name), value)

\* The Merkle tree part of add_block_to_batch: the base tree under the
\* height, every subtree under the epoch when the commit is a full commit
RECURSIVE put_subtrees(_, _, _)
put_subtrees(b, st, types) ==
    IF types = {} THEN b
    ELSE LET t == CHOOSE x \in types : TRUE
             b1 == put_cf(b, "block", subtree_key(t, st.epoch, "root"),
                          st.merkle_tree_stores)
             b2 == put_cf(b1, "block", subtree_key(t, st.epoch, "store"),
                          st.merkle_tree_stores)
         IN  put_subtrees(b2, st, types \ {t})

\* A block writer that writes the base tree on full commits only
put_merkle_tree_on_full_commit(b, st, is_full_commit) ==
    IF is_full_commit
    THEN put_subtrees(
             put_cf(put_cf(b, "block", base_tree_key(st.height, "root"),
                           st.merkle_tree_stores),
                    "block", base_tree_key(st.height, "store"),
                    st.merkle_tree_stores),
             st, SubtreeTypes)
    ELSE b

\* A block writer that writes the subtrees with every block
put_merkle_tree_with_subtrees(b, st, is_full_commit) ==
    put_subtrees(
        put_cf(put_cf(b, "block", base_tree_key(st.height, "root"),
                      st.merkle_tree_stores),
               "block", base_tree_key(st.height, "store"),
               st.merkle_tree_stores),
        st, SubtreeTypes)

put_merkle_tree(b, st, is_full_commit) ==
    LET b1 == put_cf(b, "block", base_tree_key(st.height, "root"),
                     st.merkle_tree_stores)
        b2 == put_cf(b1, "block", base_tree_key(st.height, "store"),
                     st.merkle_tree_stores)
    IN  IF is_full_commit THEN put_subtrees(b2, st, SubtreeTypes) ELSE b2

\* add_block_to_batch: the batch after the call
add_block_to_batch(d, b, st, is_full_commit) ==
    LET b1 == shadow_and_put(d, b, "next_epoch_min_start_height",
                             st.next_epoch_min_start_height)
        b2 == shadow_and_put(d, b1, "next_epoch_min_start_time",
                             st.next_epoch_min_start_time)
        b3 == shadow_and_put(d, b2, "update_epoch_blocks_delay",
                             st.update_epoch_blocks_delay)
        b4 == IF is_full_commit
              THEN shadow_and_put(d, b3, "conversion_state",
                                  st.conversion_state)
              ELSE b3
        b5 == shadow_and_put(d, b4, "tx_queue", st.tx_queue)
        b6 == put_cf(b5, "state", state_key("ethereum_height"),
                     st.ethereum_height)
        b7 == put_cf(b6, "state", state_key("eth_events_queue"),
                     st.eth_events_queue)
        b8 == put_merkle_tree(b7, st, is_full_commit)
        b9 == IF IsSome(st.header)
              THEN put_cf(b8, "block", block_key(st.height, "header"),
                          Unwrap(st.header))
              ELSE b8
        b10 == put_cf(b9, "block", block_key(st.height, "hash"), st.hash)
        b11 == put_cf(b10, "block", block_key(st.height, "time"), st.time)
        b12 == put_cf(b11, "block", block_key(st.height, "epoch"), st.epoch)
        b13 == put_cf(b12, "block", results_key(st.height), st.results)
        b14 == put_cf(b13, "block", block_key(st.height, "pred_epochs"),
                      st.pred_epochs)
        b15 == put_cf(b14, "block", block_key(st.height, "address_gen"),
                      st.address_gen)
    IN  put_cf(b15, "state", state_key("height"), st.height)

\* ------------------------------------------------------- read_last_block
\* Byte order of two key strings given as sequences of character ranks
RECURSIVE LexLess(_, _)
LexLess(s, t) ==
    IF t = <<>> THEN FALSE
    ELSE IF s = <<>> THEN TRUE
         ELSE IF Head(s) # Head(t) THEN Head(s) < Head(t)
              ELSE LexLess(Tail(s), Tail(t))

\* "{h}/": the digits of h and the separator, which sorts below every digit
height_prefix(h) == Append(Digits(h), -1)

\* The scan of read_last_block: from "{h}/" up to the upper bound "{h+1}/"
in_block_scan(h, entry_height) ==
    /\ ~LexLess(height_prefix(entry_height), height_prefix(h))
    /\ LexLess(height_prefix(entry_height), height_prefix(h + 1))

\* The names of the per-height BLOCK entries
BlockNames == {"header", "hash", "time", "epoch", "pred_epochs", "address_gen"}

\* The heights that have an entry `name` within the scan of height h
scanned_heights(d, h, name) ==
    {k[2] : k \in {x \in DOMAIN d.block :
                     x[1] = "height" /\ x[3] = name /\ in_block_scan(h, x[2])}}

\* The value the scan leaves in the variable `name`: that of the last
\* matching entry in key order, None when the scan meets none
scanned(d, h, name) ==
    LET hs == scanned_heights(d, h, name)
    IN  IF hs = {} THEN None
        ELSE LET last == CHOOSE x \in hs : \A y \in hs \ {x} :
                            LexLess(height_prefix(y), height_prefix(x))
             IN  get_cf(d, "block", block_key(last, name))

\* The STATE keys read_last_block needs besides the height
LastBlockStateKeys ==
    {"next_epoch_min_start_height", "next_epoch_min_start_time",
     "update_epoch_blocks_delay", "conversion_state", "tx_queue",
     "ethereum_height", "eth_events_queue"}

\* The subtrees read_last_block restores under the block's epoch
subtree_roots(d, epoch) ==
    [t \in {x \in SubtreeTypes : subtree_key(x, epoch, "root") \in DOMAIN d.block}
        |-> d.block[subtree_key(t, epoch, "root")]]

subtree_stores(d, epoch) ==
    [t \in {x \in SubtreeTypes : subtree_key(x, epoch, "store") \in DOMAIN d.block}
        |-> d.block[subtree_key(t, epoch, "store")]]

\* read_last_block: Ok(None), Err(..) or Ok(Some(BlockStateRead))
read_last_block(d) ==
    LET h == get_cf(d, "state", state_key("height"))
    IN  IF ~IsSome(h) THEN [kind |-> "none"]
        ELSE IF ~IsSome(get_cf(d, "block", results_key(Unwrap(h))))
             THEN [kind |-> "none"]
        ELSE IF \E n \in LastBlockStateKeys : ~IsSome(get_cf(d, "state", state_key(n)))
             THEN [kind |-> "none"]
        ELSE LET hh == Unwrap(h)
                 hash == scanned(d, hh, "hash")
                 time == scanned(d, hh, "time")
                 epoch == scanned(d, hh, "epoch")
                 pred_epochs == scanned(d, hh, "pred_epochs")
                 address_gen == scanned(d, hh, "address_gen")
             IN  IF IsSome(hash) /\ IsSome(time) /\ IsSome(epoch)
                    /\ IsSome(pred_epochs) /\ IsSome(address_gen)
                 THEN [kind |-> "some",
                       height |-> hh,
                       hash |-> Unwrap(hash),
                       time |-> Unwrap(time),
                       epoch |-> Unwrap(epoch),
                       pred_epochs |-> Unwrap(pred_epochs),
                       address_gen |-> Unwrap(address_gen),
                       results |-> d.block[results_key(hh)],
                       subtree_roots |-> subtree_roots(d, Unwrap(epoch)),
                       subtree_stores |-> subtree_stores(d, Unwrap(epoch)),
                       conversion_state |-> d.state[state_key("conversion_state")],
                       next_epoch_min_start_height |->
                           d.state[state_key("next_epoch_min_start_height")],
                       next_epoch_min_start_time |->
                           d.state[state_key("next_epoch_min_start_time")],
                       update_epoch_blocks_delay |->
                           d.state[state_key("update_epoch_blocks_delay")],
                       tx_queue |-> d.state[state_key("tx_queue")],
                       ethereum_height |-> d.state[state_key("ethereum_height")],
                       eth_events_queue |-> d.state[state_key("eth_events_queue")]]
                 ELSE [kind |-> "err"]

\* ----------------------------------------------------------- Merkle trees
\* StoreType::iter(): the base tree and the subtrees
Base == "base"
StoreTypes == {Base} \cup SubtreeTypes

\* The key of the root or the store of a store type: the base tree under
\* the height, a subtree under the epoch
tree_key(st, epoch, base_height, part) ==
    IF st = Base THEN base_tree_key(base_height, part)
    ELSE subtree_key(st, epoch, part)

\* read_merkle_tree_stores: None when a root or a store of a requested
\* store type is missing, else the roots and stores read
read_merkle_tree_stores(d, epoch, base_height, store_type) ==
    LET types == IF IsSome(store_type) THEN {Unwrap(store_type)} ELSE StoreTypes
    IN  IF \E st \in types, part \in {"root", "store"} :
               tree_key(st, epoch, base_height, part) \notin DOMAIN d.block
        THEN None
        ELSE Some([roots |-> [st \in types |->
                               d.block[tree_key(st, epoch, base_height, "root")]],
                   stores |-> [st \in types |->
                               d.block[tree_key(st, epoch, base_height, "store")]]])

\* A prune that deletes the root and leaves the store
prune_merkle_tree_root_only(b, store_type, epoch) ==
    delete_cf(b, "block", subtree_key(store_type, epoch, "root"))

\* prune_merkle_tree_store: the batch after the call
prune_merkle_tree_store(b, store_type, epoch) ==
    delete_cf(delete_cf(b, "block", subtree_key(store_type, epoch, "root")),
              "block", subtree_key(store_type, epoch, "store"))

\* ------------------------------------------------------ replay protection
\* write_replay_protection_entry: an empty value under the key
write_replay_protection_entry(b, key) == put_cf(b, "replay", key, <<>>)

\* delete_replay_protection_entry
delete_replay_protection_entry(b, key) == delete_cf(b, "replay", key)

\* iter_replay_protection / iter_replay_protection_buffer: the hashes under
\* "last/" and under "buffer/"
iter_replay_protection(d) == {k[2] : k \in {x \in DOMAIN d.replay : x[1] = "last"}}
iter_replay_protection_buffer(d) ==
    {k[2] : k \in {x \in DOMAIN d.replay : x[1] = "buffer"}}

\* Staging the same operation for every element of a set of keys
RECURSIVE delete_all(_, _, _)
delete_all(b, cf, keys) ==
    IF keys = {} THEN b
    ELSE LET k == CHOOSE x \in keys : TRUE
         IN  delete_all(delete_cf(b, cf, k), cf, keys \ {k})

\* A prune that also deletes the buffer/ entries staged in the batch
prune_buffer_of_store_and_batch(d, b) ==
    delete_all(b, "replay",
               {buffer_key(hash) : hash \in iter_replay_protection_buffer(d)}
               \cup {k \in DOMAIN b.replay : k[1] = "buffer"})

\* prune_replay_protection_buffer: delete every committed buffer/ entry
prune_replay_protection_buffer(d, b) ==
    delete_all(b, "replay", {buffer_key(hash) : hash \in iter_replay_protection_buffer(d)})

\* Staging a write of every key of a set
RECURSIVE write_all(_, _, _)
write_all(b, cf, keys) ==
    IF keys = {} THEN b
    ELSE LET k == CHOOSE x \in keys : TRUE
         IN  write_all(put_cf(b, cf, k, <<>>), cf, keys \ {k})

\* A block that writes its last/ hashes to buffer/ without deleting them
\* from last/
block_replay_keeping_last(d, b, promoted, new_hashes) ==
    LET last == iter_replay_protection(d)
        b1 == prune_replay_protection_buffer(d, b)
        b2 == write_all(b1, "replay", {all_key(hash) : hash \in promoted})
        b4 == write_all(b2, "replay", {buffer_key(hash) : hash \in last})
    IN  write_all(b4, "replay", {last_key(hash) : hash \in new_hashes})

\* The replay protection calls of a block, in the order of test_rollback:
\* the buffer is pruned, the hashes of `promoted` are written to all/, every
\* hash of last/ is deleted there and written to buffer/, and the hashes of
\* the block's own transactions are written to last/
block_replay_protection(d, b, promoted, new_hashes) ==
    LET last == iter_replay_protection(d)
        b1 == prune_replay_protection_buffer(d, b)
        b2 == write_all(b1, "replay", {all_key(hash) : hash \in promoted})
        b3 == delete_all(b2, "replay", {last_key(hash) : hash \in last})
        b4 == write_all(b3, "replay", {buffer_key(hash) : hash \in last})
    IN  write_all(b4, "replay", {last_key(hash) : hash \in new_hashes})

\* A probe that also looks under buffer/
has_entry_in_any_bucket(d, hash) ==
    \E key \in {last_key(hash), buffer_key(hash), all_key(hash)} :
        IsSome(get_cf(d, "replay", key))

\* has_replay_protection_entry: probes last/ and all/
has_replay_protection_entry(d, hash) ==
    \E key \in {last_key(hash), all_key(hash)} : IsSome(get_cf(d, "replay", key))

\* ---------------------------------------------------------------- rollback
\* A revert of the three epoch keys that leaves tx_queue as the last block
\* wrote it
RECURSIVE revert_epoch_keys(_, _, _)
revert_epoch_keys(d, b, names) ==
    IF names \ {"tx_queue"} = {} THEN b
    ELSE LET n == CHOOSE x \in names \ {"tx_queue"} : TRUE
         IN  revert_epoch_keys(d,
                 put_cf(b, "state", state_key(n), d.state[pred_key(n)]),
                 names \ {n})

\* A revert that moves each pred/{name} back: the shadow is deleted
RECURSIVE revert_metadata_consuming_pred(_, _, _)
revert_metadata_consuming_pred(d, b, names) ==
    IF names = {} THEN b
    ELSE LET n == CHOOSE x \in names : TRUE
         IN  revert_metadata_consuming_pred(d,
                 delete_cf(put_cf(b, "state", state_key(n),
                                  d.state[pred_key(n)]),
                           "state", pred_key(n)),
                 names \ {n})

\* "Reverting non-height-prepended metadata keys": copy pred/{name} back
RECURSIVE revert_metadata(_, _, _)
revert_metadata(d, b, names) ==
    IF names = {} THEN b
    ELSE LET n == CHOOSE x \in names : TRUE
         IN  revert_metadata(d,
                 put_cf(b, "state", state_key(n), d.state[pred_key(n)]),
                 names \ {n})

\* "Revert conversion state if the epoch had been changed"
epoch_changed(last_block, previous_height) ==
    get_epoch(last_block.pred_epochs, previous_height) # Some(last_block.epoch)

\* A rollback that never reverts the conversion state
keep_conversion_state(d, b, last_block, previous_height) == b

revert_conversion_state(d, b, last_block, previous_height) ==
    IF epoch_changed(last_block, previous_height)
    THEN put_cf(b, "state", state_key("conversion_state"),
                d.state[pred_key("conversion_state")])
    ELSE b

\* The pred/ keys rollback reads, each of which must exist
required_pred_keys(last_block, previous_height) ==
    {pred_key(n) : n \in ShadowedKeys}
    \cup (IF epoch_changed(last_block, previous_height)
          THEN {pred_key("conversion_state")} ELSE {})

\* "Restoring replay protection state": delete the last/ hashes, then move
\* every buffer/ hash to last/ and delete it from all/
\* A restore of the buffer that leaves the all/ entries in place
RECURSIVE restore_buffer_keeping_all(_, _)
restore_buffer_keeping_all(b, hashes) ==
    IF hashes = {} THEN b
    ELSE LET hash == CHOOSE x \in hashes : TRUE
         IN  restore_buffer_keeping_all(
                 put_cf(b, "replay", last_key(hash), <<>>), hashes \ {hash})

RECURSIVE restore_buffer(_, _)
restore_buffer(b, hashes) ==
    IF hashes = {} THEN b
    ELSE LET hash == CHOOSE x \in hashes : TRUE
             b1 == put_cf(b, "replay", last_key(hash), <<>>)
             b2 == delete_cf(b1, "replay", all_key(hash))
         IN  restore_buffer(b2, hashes \ {hash})

\* A restore that deletes the last/ hashes and leaves the buffer where it is
delete_last_hashes_only(d, b) ==
    delete_all(b, "replay",
               {last_key(hash) : hash \in iter_replay_protection(d)})

restore_replay_protection(d, b) ==
    LET b1 == delete_all(b, "replay",
                         {last_key(hash) : hash \in iter_replay_protection(d)})
    IN  restore_buffer(b1, iter_replay_protection_buffer(d))

\* "Restoring previous height subspace diffs": every SUBSPACE key gets its
\* value at the previous height, or is deleted when it had none.  The
\* workers stage one operation per key, so their order does not matter.
RECURSIVE restore_subspace(_, _, _, _, _)
restore_subspace(d, b, keys, previous_height, last_height) ==
    IF keys = {} THEN b
    ELSE LET key == CHOOSE x \in keys : TRUE
             previous_value ==
                 read_subspace_val_with_height(d, key, previous_height, last_height)
             b1 == IF IsSome(previous_value)
                   THEN put_cf(b, "subspace", key, Unwrap(previous_value))
                   ELSE delete_cf(b, "subspace", key)
         IN  restore_subspace(d, b1, keys \ {key}, previous_height, last_height)

\* read_subspace_val of the key "{L}/new/{key}": a SUBSPACE lookup of a
\* three-segment key that starts with a height; no account key has that form
read_subspace_diff_new_key(d, last_height, key) == None

\* A rollback that does not look for what has been deleted
restore_deleted_skipped(d, b, keys, last_height) == b

\* "Look for diffs in this block to find what has been deleted": every old
\* diff of the last height whose "{L}/new/{key}" has no SUBSPACE value is put
\* back into SUBSPACE
RECURSIVE restore_deleted(_, _, _, _)
restore_deleted(d, b, keys, last_height) ==
    IF keys = {} THEN b
    ELSE LET key == CHOOSE x \in keys : TRUE
             val == d.diffs[old_diff_key(key, last_height)]
             b1 == IF ~IsSome(read_subspace_diff_new_key(d, last_height, key))
                   THEN put_cf(b, "subspace", key, val)
                   ELSE b
         IN  restore_deleted(d, b1, keys \ {key}, last_height)

\* iter_diffs_prefix(height, None, is_old = true): the keys under "{h}/old/"
iter_old_diffs(d, h) ==
    {k[3] : k \in {x \in DOMAIN d.diffs : x[1] = h /\ x[2] = OLD_DIFF_PREFIX}}

\* A delete of the height-prepended keys that leaves the BLOCK entries
delete_height_diffs_only(d, b, last_height) ==
    delete_all(b, "diffs",
        {k \in DOMAIN d.diffs : in_height_prefix(last_height, k[1])})

\* "Deleting keys prepended with the last height": delete_keys on DIFFS and
\* on BLOCK with the prefix "{L}"
delete_height_keys(d, b, last_height) ==
    LET b1 == delete_all(b, "diffs",
                  {k \in DOMAIN d.diffs : in_height_prefix(last_height, k[1])})
    IN  delete_all(b1, "block",
            {k \in DOMAIN d.block :
                k[1] = "height" /\ in_height_prefix(last_height, k[2])})

\* The orders in which the parallel workers can take the batch lock: every
\* sequence that holds each of the keys once
RECURSIVE Orders(_)
Orders(keys) ==
    IF keys = {} THEN {<<>>}
    ELSE UNION {{<<key>> \o rest : rest \in Orders(keys \ {key})} : key \in keys}

\* A parallel fold that loses the item handed out last
parallel_ops_losing_last(d, order, previous_height, last_height) ==
    [i \in 1..(Len(order) - 1) |->
        <<order[i],
          read_subspace_val_with_height(d, order[i], previous_height,
                                        last_height)>>]

\* The operations the workers of try_for_each stage when they take the
\* lock in the order `order`: for each key of iter_prefix(None) a put of
\* its value at the previous height, or a delete
parallel_ops(d, order, previous_height, last_height) ==
    [i \in 1..Len(order) |->
        <<order[i],
          read_subspace_val_with_height(d, order[i], previous_height,
                                        last_height)>>]

\* The batch after the staged operations, first to last
RECURSIVE stage_ops(_, _)
stage_ops(b, ops) ==
    IF ops = <<>> THEN b
    ELSE stage_ops(IF IsSome(Head(ops)[2])
                   THEN put_cf(b, "subspace", Head(ops)[1], Unwrap(Head(ops)[2]))
                   ELSE delete_cf(b, "subspace", Head(ops)[1]),
                   Tail(ops))

\* The batch rollback builds when the workers take the lock in `order`
rollback_batch_in_order(d, last_block, order) ==
    LET previous_height == last_block.height - 1
        b1 == put_cf(EmptyBatch, "state", state_key("height"), previous_height)
        b2 == revert_metadata(d, b1, ShadowedKeys)
        b3 == revert_conversion_state(d, b2, last_block, previous_height)
        b4 == delete_cf(b3, "block", results_key(last_block.height))
        b5 == restore_replay_protection(d, b4)
        b6 == stage_ops(b5, parallel_ops(d, order, previous_height,
                                         last_block.height))
        b7 == restore_deleted(d, b6, iter_old_diffs(d, last_block.height),
                              last_block.height)
    IN  delete_height_keys(d, b7, last_block.height)

\* The batch rollback builds for last block `last_block`
rollback_batch(d, last_block) ==
    LET previous_height == last_block.height - 1
        b1 == put_cf(EmptyBatch, "state", state_key("height"), previous_height)
        b2 == revert_metadata(d, b1, ShadowedKeys)
        b3 == revert_conversion_state(d, b2, last_block, previous_height)
        b4 == delete_cf(b3, "block", results_key(last_block.height))
        b5 == restore_replay_protection(d, b4)
        b6 == restore_subspace(d, b5, DOMAIN d.subspace, previous_height,
                               last_block.height)
        b7 == restore_deleted(d, b6, iter_old_diffs(d, last_block.height),
                              last_block.height)
    IN  delete_height_keys(d, b7, last_block.height)

\* rollback without the early return for a store already at the target
rollback_without_noop(d, tendermint_block_height) ==
    LET last_block == read_last_block(d)
    IN  IF last_block.kind # "some" THEN [result |-> "err", db |-> d]
        ELSE IF ~(required_pred_keys(last_block, last_block.height - 1)
                    \subseteq DOMAIN d.state)
             THEN [result |-> "err", db |-> d]
        ELSE [result |-> "ok",
              db |-> write_batch(d, rollback_batch(d, last_block))]

\* rollback putting the reverted height into the store, not into the batch,
\* before it looks for the pred/ keys
rollback_unbatched_height(d, tendermint_block_height) ==
    LET last_block == read_last_block(d)
    IN  IF last_block.kind # "some" THEN [result |-> "err", db |-> d]
        ELSE IF tendermint_block_height = last_block.height
             THEN [result |-> "same", db |-> d]
        ELSE IF ~(required_pred_keys(last_block, last_block.height - 1)
                    \subseteq DOMAIN d.state)
             THEN [result |-> "err",
                   db |-> write_batch(d, put_cf(EmptyBatch, "state",
                              state_key("height"), last_block.height - 1))]
        ELSE [result |-> "ok",
              db |-> write_batch(d, rollback_batch(d, last_block))]

\* rollback(tendermint_block_height): the outcome and the store after it.
\* "err": no last block, or a pred/ key is missing (nothing is written);
\* "same": the heights match, nothing to do; "ok": the batch was executed.
rollback(d, tendermint_block_height) ==
    LET last_block == read_last_block(d)
    IN  IF last_block.kind # "some" THEN [result |-> "err", db |-> d]
        ELSE IF tendermint_block_height = last_block.height
             THEN [result |-> "same", db |-> d]
        ELSE IF ~(required_pred_keys(last_block, last_block.height - 1)
                    \subseteq DOMAIN d.state)
             THEN [result |-> "err", db |-> d]
        ELSE [result |-> "ok",
              db |-> write_batch(d, rollback_batch(d, last_block))]

\* ------------------------------------------------------- prefix iterator
\* Key strings as sequences of bytes: "/" is 47, "0" is 48, "1" is 49 and
\* "a", "b", "c" are 97, 98, 99
Separator == <<47>>

\* make_iter_read_opts(Some(prefix)): the upper bound of the iterator, the
\* prefix with its last byte incremented; none for the empty prefix
make_iter_read_opts(prefix) ==
    IF prefix = <<>> THEN None
    ELSE Some([prefix EXCEPT ![Len(prefix)] = (@ + 1) % 256])

\* The entries a forward iterator over `keys` yields, in byte order
RECURSIVE ascending(_)
ascending(keys) ==
    IF keys = {} THEN <<>>
    ELSE LET first == CHOOSE x \in keys :
                          \A y \in keys \ {x} : LexLess(x, y)
         IN  <<first>> \o ascending(keys \ {first})

\* iterator_cf_opt(cf, read_opts, IteratorMode::From(from, Forward)): the
\* keys of the column family from `from` on and below the upper bound
iterator_cf_opt(m, read_opts, from) ==
    ascending({k \in DOMAIN m :
                  /\ ~LexLess(k, from)
                  /\ IsSome(read_opts) => LexLess(k, Unwrap(read_opts))})

\* iter_prefix over SUBSPACE without the separator after the prefix
iter_prefix_without_separator(d, prefix) ==
    LET from == IF IsSome(prefix) /\ Unwrap(prefix) # <<>>
                THEN Unwrap(prefix) ELSE <<>>
        keys == iterator_cf_opt(d.subspace, make_iter_read_opts(from), from)
    IN  [i \in 1..Len(keys) |-> <<keys[i], d.subspace[keys[i]]>>]

\* iter_subspace_prefix: iter_prefix over SUBSPACE with no stripped prefix;
\* the (key, value) pairs in the order the iterator yields them
iter_prefix(d, prefix) ==
    LET from == IF IsSome(prefix) /\ Unwrap(prefix) # <<>>
                THEN Unwrap(prefix) \o Separator ELSE <<>>
        keys == iterator_cf_opt(d.subspace, make_iter_read_opts(from), from)
    IN  [i \in 1..Len(keys) |-> <<keys[i], d.subspace[keys[i]]>>]

\* ============================================================== the model
EmptyBlock ==
    [db |-> EmptyDB, ops |-> EmptyMap, volatile |-> {},
     new_epoch |-> FALSE, is_full_commit |-> FALSE, st |-> EmptyMap]

NoRollback ==
    [result |-> "none", from |-> 0, target |-> 0, in_a_row |-> FALSE,
     prev |-> EmptyBlock, last |-> EmptyBlock]

NoWrite == [h |-> 0, ops |-> EmptyMap]

Init ==
    /\ db = EmptyDB
    /\ batch = EmptyBatch
    /\ height = FirstHeight
    /\ touched = EmptyMap
    /\ volatile = {}
    /\ log = {}
    /\ written = NoWrite
    /\ snaps = <<>>
    /\ rb = NoRollback

\* The height of the last committed block, 0 before the first
LastHeight == IF state_key("height") \in DOMAIN db.state
              THEN db.state[state_key("height")] ELSE 0

\* ------------------------------------------------------- subspace actions
\* batch_write_subspace_val(batch, height, key, value, persist_diffs)
BatchWrite(cap, key, value, persist_diffs) ==
    /\ height <= cap
    /\ batch' = batch_write_subspace_val(db, batch, height, key, value,
                                         persist_diffs)
    /\ touched' = (key :> Some(value)) @@ touched
    /\ volatile' = IF persist_diffs THEN volatile ELSE volatile \cup {key}
    /\ rb' = NoRollback
    /\ UNCHANGED <<db, height, log, written, snaps>>

\* batch_delete_subspace_val(batch, height, key, persist_diffs)
BatchDelete(cap, key, persist_diffs) ==
    /\ height <= cap
    /\ batch' = batch_delete_subspace_val(db, batch, height, key, persist_diffs)
    /\ touched' = (key :> None) @@ touched
    /\ volatile' = IF persist_diffs THEN volatile ELSE volatile \cup {key}
    /\ rb' = NoRollback
    /\ UNCHANGED <<db, height, log, written, snaps>>

\* write_subspace_val(height, key, value, persist_diffs), not batched
WriteSubspaceVal(cap, key, value, persist_diffs) ==
    /\ height <= cap
    /\ db' = write_subspace_val(db, height, key, value, persist_diffs)
    /\ touched' = (key :> Some(value)) @@ touched
    /\ volatile' = IF persist_diffs THEN volatile ELSE volatile \cup {key}
    /\ written' = [h |-> height, ops |-> (key :> Some(value))]
    /\ snaps' = <<>>
    /\ rb' = NoRollback
    /\ UNCHANGED <<batch, height, log>>

\* delete_subspace_val(height, key, persist_diffs), not batched
DeleteSubspaceVal(cap, key, persist_diffs) ==
    /\ height <= cap
    /\ db' = delete_subspace_val(db, height, key, persist_diffs)
    /\ touched' = (key :> None) @@ touched
    /\ volatile' = IF persist_diffs THEN volatile ELSE volatile \cup {key}
    /\ written' = [h |-> height, ops |-> (key :> None)]
    /\ snaps' = <<>>
    /\ rb' = NoRollback
    /\ UNCHANGED <<batch, height, log>>

\* ------------------------------------------------------------ block commit
\* The epoch and the predecessor epochs of the last committed block, as the
\* applier holds them; Epoch::default() and Epochs::default() before it
LastEpoch ==
    IF block_key(LastHeight, "epoch") \in DOMAIN db.block
    THEN db.block[block_key(LastHeight, "epoch")] ELSE 0

LastPredEpochs ==
    IF block_key(LastHeight, "pred_epochs") \in DOMAIN db.block
    THEN db.block[block_key(LastHeight, "pred_epochs")] ELSE <<0>>

\* The BlockStateWrite of the block at height h: m and c select the values
\* of its fields, new_epoch whether the block starts a new epoch
BlockStateWrite(h, m, c, new_epoch) ==
    [height |-> h,
     hash |-> 10 + m,
     time |-> 20 + m,
     epoch |-> IF new_epoch THEN LastEpoch + 1 ELSE LastEpoch,
     pred_epochs |-> IF new_epoch THEN Append(LastPredEpochs, h)
                     ELSE LastPredEpochs,
     next_epoch_min_start_height |-> 30 + m,
     next_epoch_min_start_time |-> 40 + m,
     update_epoch_blocks_delay |-> 50 + m,
     address_gen |-> 60 + m,
     results |-> 70 + m,
     conversion_state |-> 80 + c,
     tx_queue |-> 90 + m,
     ethereum_height |-> 100 + c,
     eth_events_queue |-> 110 + c,
     header |-> IF m = 1 THEN None ELSE Some(120 + m),
     merkle_tree_stores |-> 130 + m]

\* The committed operations of the block under assembly, for the log
BlockLog == {<<height, k, touched[k]>> : k \in DOMAIN touched}

\* add_block_to_batch(state, batch, is_full_commit) and exec_batch(batch):
\* the block at `height` is committed and the applier moves to the next
CommitStaged(b, cap, m, c, new_epoch, is_full_commit) ==
    /\ height <= cap
    /\ db' = write_batch(db,
                 add_block_to_batch(db, b,
                     BlockStateWrite(height, m, c, new_epoch), is_full_commit))
    /\ batch' = EmptyBatch
    /\ height' = height + 1
    /\ touched' = EmptyMap
    /\ volatile' = {}
    /\ log' = log \cup BlockLog
    /\ written' = [h |-> height, ops |-> b.subspace]
    /\ snaps' = LET e == [db |-> db', ops |-> touched, volatile |-> volatile,
                          new_epoch |-> new_epoch,
                          is_full_commit |-> is_full_commit,
                          st |-> BlockStateWrite(height, m, c, new_epoch)]
                IN  IF snaps = <<>> THEN <<e>> ELSE <<snaps[Len(snaps)], e>>
    /\ rb' = NoRollback

CommitBlock(cap, m, c, new_epoch, is_full_commit) ==
    CommitStaged(batch, cap, m, c, new_epoch, is_full_commit)

\* rollback(tendermint_block_height), called with no batch under assembly
Rollback(target) ==
    /\ batch = EmptyBatch
    /\ touched = EmptyMap
    /\ \E r \in {rollback(db, target)} :
           /\ db' = r.db
           /\ rb' = [result |-> r.result,
                     from |-> LastHeight,
                     target |-> target,
                     in_a_row |-> Len(snaps) = 2,
                     prev |-> IF Len(snaps) = 2 THEN snaps[1] ELSE EmptyBlock,
                     last |-> IF snaps # <<>> THEN snaps[Len(snaps)]
                              ELSE EmptyBlock]
           /\ height' = IF r.result = "ok" THEN LastHeight ELSE height
           /\ log' = IF r.result = "ok"
                     THEN {e \in log : e[1] < LastHeight} ELSE log
           /\ snaps' = IF r.result = "ok" THEN <<>> ELSE snaps
           /\ written' = IF r.result = "ok" THEN NoWrite ELSE written
    /\ UNCHANGED <<batch, touched, volatile>>

\* ================================================== blocks and reads only
\* Blocks that write or delete each key at most once, with persist_diffs =
\* true, committed at increasing heights (the blocks of test_read).
StageWriteOnce(key, value) ==
    /\ key \notin DOMAIN touched
    /\ BatchWrite(MaxHeight, key, value, TRUE)

StageDeleteOnce(key) ==
    /\ key \notin DOMAIN touched
    /\ BatchDelete(MaxHeight, key, TRUE)

CommitTestBlock(cap) == CommitBlock(cap, height, height, TRUE, TRUE)

NextRead ==
    \/ \E key \in Keys, value \in Vals : StageWriteOnce(key, value)
    \/ \E key \in Keys : StageDeleteOnce(key)
    \/ CommitTestBlock(MaxHeight)

SpecRead == Init /\ [][NextRead]_vars

\* The value the committed operations gave `key` as of block p
Expected(key, p) ==
    LET es == {e \in log : e[2] = key /\ e[1] <= p}
    IN  IF es = {} THEN None
        ELSE (CHOOSE e \in es : \A f \in es : f[1] <= e[1])[3]

\* The heights at which a committed block wrote or deleted `key`
WriteHeights(key) == {e[1] : e \in {x \in log : x[2] = key}}
OnlyWrites(key) == \A e \in log : e[2] = key => e[3] # None
MaxOf(S) == CHOOSE x \in S : \A y \in S : y <= x
MinOf(S) == CHOOSE x \in S : \A y \in S : x <= y

\* C1: after committed writes (h_1, k, v_1) .. (h_n, k, v_n) of one key at
\* increasing heights with persist_diffs = true, for every height p from h_1
\* to h_n the historical read of k at p with last height h_n returns
\* Some(v_i) for the largest i with h_i <= p.
C1_HistoricalRoundTrip ==
    \A key \in Keys :
        (WriteHeights(key) # {} /\ OnlyWrites(key)) =>
            \A p \in MinOf(WriteHeights(key))..MaxOf(WriteHeights(key)) :
                /\ Expected(key, p) # None
                /\ read_subspace_val_with_height(db, key, p, MaxOf(WriteHeights(key)))
                       = Expected(key, p)

\* A key written at two heights with different values and a height between
\* them at which it was not written
C1_Witness ==
    \E key \in Keys :
        /\ OnlyWrites(key)
        /\ Cardinality(WriteHeights(key)) = 2
        /\ \E p \in MinOf(WriteHeights(key))..MaxOf(WriteHeights(key)) :
              /\ p \notin WriteHeights(key)
              /\ Expected(key, p) # Expected(key, MaxOf(WriteHeights(key)))

\* C3: after committed blocks at increasing heights, each touching each key
\* at most once with persist_diffs = true, the historical read of every key
\* at every committed height h equals the latest value right after block h:
\* None from a delete on until the next write, and None before the first
\* write.
C3_HistoricalEqualsLatestAtHeight ==
    \A key \in Keys : \A h \in 1..LastHeight :
        read_subspace_val_with_height(db, key, h, LastHeight) = Expected(key, h)

\* A key written, later deleted, and read at a height after the delete and
\* at a height before its first write
C3_Witness ==
    \E key \in Keys : \E h1, h2, h3 \in 1..LastHeight :
        /\ h1 < h2 /\ h2 < h3
        /\ Expected(key, h1) = None
        /\ Expected(key, h2) # None
        /\ <<h3, key, None>> \in log
        /\ read_subspace_val_with_height(db, key, h3, LastHeight) = None

\* ====================================================== blocks and rollback
\* A run applies blocks and ends with at most one completed rollback.
Running == rb.result # "ok"

RollbackOneOrNone == \E target \in {LastHeight - 1, LastHeight} : Rollback(target)

\* Blocks whose keys are all written with persist_diffs = true, any number
\* of times per block, committed as in test_rollback
NextSub ==
    \/ Running /\ \E key \in Keys, value \in Vals :
           BatchWrite(MaxRollbackHeight, key, value, TRUE)
    \/ Running /\ \E key \in Keys : BatchDelete(MaxRollbackHeight, key, TRUE)
    \/ Running /\ CommitTestBlock(MaxRollbackHeight)
    \/ Running /\ RollbackOneOrNone

SpecSub == Init /\ [][NextSub]_vars

\* Blocks writing and deleting one key with either persist_diffs flag, as
\* in test_diffs, and rollbacks
DiffKeys == {"add"}

NextDiffs ==
    \/ Running /\ \E key \in DiffKeys, value \in Vals, persist_diffs \in BOOLEAN :
           BatchWrite(MaxRollbackHeight, key, value, persist_diffs)
    \/ Running /\ \E key \in DiffKeys, persist_diffs \in BOOLEAN :
           BatchDelete(MaxRollbackHeight, key, persist_diffs)
    \/ Running /\ CommitTestBlock(MaxRollbackHeight)
    \/ Running /\ RollbackOneOrNone

SpecDiffs == Init /\ [][NextDiffs]_vars

\* Batched and non-batched writes and deletes of one key with either
\* persist_diffs flag, one operation per height
Untouched(key) == key \notin DOMAIN touched

NextWrite ==
    \/ \E key \in DiffKeys, value \in Vals, persist_diffs \in BOOLEAN :
           Untouched(key) /\ BatchWrite(MaxRollbackHeight, key, value, persist_diffs)
    \/ \E key \in DiffKeys, persist_diffs \in BOOLEAN :
           Untouched(key) /\ BatchDelete(MaxRollbackHeight, key, persist_diffs)
    \/ \E key \in DiffKeys, value \in Vals, persist_diffs \in BOOLEAN :
           Untouched(key) /\ WriteSubspaceVal(MaxRollbackHeight, key, value, persist_diffs)
    \/ \E key \in DiffKeys, persist_diffs \in BOOLEAN :
           Untouched(key) /\ DeleteSubspaceVal(MaxRollbackHeight, key, persist_diffs)
    \/ CommitTestBlock(MaxRollbackHeight)

SpecWrite == Init /\ [][NextWrite]_vars

\* C2: after batch_write_subspace_val(h, k, v) followed by exec_batch, or
\* after the non-batched write_subspace_val(h, k, v), the latest read of k
\* returns Some(v) and the historical read of k at height h with last height
\* h returns Some(v).
C2_WriteThenRead ==
    \A key \in DOMAIN written.ops :
        written.ops[key] # None =>
            /\ read_subspace_val(db, key) = written.ops[key]
            /\ read_subspace_val_with_height(db, key, written.h, written.h)
                   = written.ops[key]

\* A batched write executed over an older value of the key
C2_WitnessBatched ==
    /\ batch = EmptyBatch /\ touched = EmptyMap
    /\ written.h = MaxRollbackHeight
    /\ \E key \in DOMAIN written.ops :
          /\ written.ops[key] # None
          /\ \E e \in log : e[2] = key /\ e[1] < written.h /\ e[3] # None
                            /\ e[3] # written.ops[key]

\* ------------------------------------------------ claims about a rollback
\* A rollback from L to L-1 ran to completion right after the blocks at L-1
\* and L were committed one after the other; rb.prev is the store right
\* after the block at L-1, rb.last the one right after the block at L.
RolledBack == rb.result = "ok" /\ rb.in_a_row /\ rb.target = rb.from - 1

\* C4: after committing the blocks at L-1 and L (keys written with
\* persist_diffs = true) and rollback(L-1), the SUBSPACE column family is
\* identical to its content right after the block at L-1 was committed.
C4_SubspaceRestored == RolledBack => db.subspace = rb.prev.db.subspace

\* A completed rollback that changed SUBSPACE back to its content after the
\* block at L-1 and brought back a key the block at L had deleted
C4_Witness ==
    /\ RolledBack
    /\ db.subspace # rb.last.db.subspace
    /\ db.subspace = rb.prev.db.subspace
    /\ \E key \in DOMAIN rb.last.ops :
          key \in DOMAIN rb.prev.db.subspace /\ rb.last.ops[key] = None

NextState ==
    \/ Running /\ \E m \in MetaVals, c \in MetaVals, new_epoch \in BOOLEAN,
                     is_full_commit \in BOOLEAN :
           CommitBlock(MaxHeight, m, c, new_epoch, is_full_commit)
    \/ Running /\ RollbackOneOrNone

SpecState == Init /\ [][NextState]_vars

\* C5: after committing the blocks at L-1 and L and rollback(L-1), the
\* STATE key height equals L-1 and next_epoch_min_start_height,
\* next_epoch_min_start_time, update_epoch_blocks_delay and tx_queue hold
\* the values they had right after the block at L-1 was committed.
C5_MetadataRestored ==
    RolledBack =>
        /\ db.state[state_key("height")] = rb.from - 1
        /\ \A n \in ShadowedKeys :
              db.state[state_key(n)] = rb.prev.db.state[state_key(n)]

\* A completed rollback of a block that had changed all four keys
C5_Witness ==
    /\ RolledBack
    /\ \A n \in ShadowedKeys :
          rb.last.db.state[state_key(n)] # rb.prev.db.state[state_key(n)]

\* The STATE keys outside pred/
StateKeys ==
    {"height", "conversion_state", "ethereum_height", "eth_events_queue"}
    \cup ShadowedKeys

\* C6: after committing the blocks at L-1 and L and rollback(L-1), every
\* STATE key outside pred/ has the value it had right after the block at
\* L-1 was committed, whatever values the block at L wrote.
C6_StateRestored ==
    RolledBack =>
        \A n \in StateKeys :
            get_cf(db, "state", state_key(n))
                = get_cf(rb.prev.db, "state", state_key(n))

\* C10 as stated: rollback from L to L-1 leaves conversion_state with the
\* value it had right after the block at L-1 was committed, for every
\* combination of the is_full_commit flag and an epoch change in the block
\* at L.
C10_ConversionStateAnyCommit ==
    RolledBack =>
        get_cf(db, "state", state_key("conversion_state"))
            = get_cf(rb.prev.db, "state", state_key("conversion_state"))

\* C10: rollback from L to L-1 leaves conversion_state with the value it
\* had right after the block at L-1 was committed, when the block at L was
\* a full commit exactly if it started a new epoch: pred/conversion_state is
\* copied back when the epoch changed, nothing is done otherwise.
C10_ConversionStateRestored ==
    (RolledBack /\ (rb.last.is_full_commit <=> rb.last.new_epoch)) =>
        get_cf(db, "state", state_key("conversion_state"))
            = get_cf(rb.prev.db, "state", state_key("conversion_state"))

\* A completed rollback of a full commit that started an epoch and wrote a
\* new conversion state
C10_Witness ==
    /\ RolledBack
    /\ rb.last.is_full_commit /\ rb.last.new_epoch
    /\ rb.last.db.state[state_key("conversion_state")]
           # rb.prev.db.state[state_key("conversion_state")]

\* ------------------------------------------- what a rollback leaves alone
\* The DIFFS entries of a store at heights up to h
DiffsUpTo(d, h) ==
    [k \in {x \in DOMAIN d.diffs : x[1] <= h} |-> d.diffs[k]]

\* The per-height BLOCK entries of a store at heights up to h
BlockUpTo(d, h) ==
    [k \in {x \in DOMAIN d.block :
              x[1] \in {"height", "results", "base_tree"} /\ x[2] <= h}
        |-> d.block[k]]

\* C7 as stated: after committing the blocks at L-1 and L and rollback(L-1),
\* the DIFFS entries and the per-height BLOCK entries at heights <= L-1 are
\* exactly those that existed right after the block at L-1 was committed,
\* whatever persist_diffs flag the keys were written with.
C7_HistoryKeptAnyFlag ==
    RolledBack =>
        /\ DiffsUpTo(db, rb.target) = DiffsUpTo(rb.prev.db, rb.target)
        /\ BlockUpTo(db, rb.target) = BlockUpTo(rb.prev.db, rb.target)

\* The DIFFS entries at heights up to h of the keys outside `keys`
DiffsUpToExcept(d, h, keys) ==
    [k \in {x \in DOMAIN d.diffs : x[1] <= h /\ x[3] \notin keys}
        |-> d.diffs[k]]

\* C7: after committing the blocks at L-1 and L and rollback(L-1), the
\* per-height BLOCK entries at heights <= L-1, and the DIFFS entries at
\* heights <= L-1 of every key that the block at L did not write or delete
\* with persist_diffs = false, are exactly those that existed right after
\* the block at L-1 was committed.
C7_HistoryKept ==
    RolledBack =>
        /\ DiffsUpToExcept(db, rb.target, rb.last.volatile)
               = DiffsUpToExcept(rb.prev.db, rb.target, rb.last.volatile)
        /\ BlockUpTo(db, rb.target) = BlockUpTo(rb.prev.db, rb.target)

\* A completed rollback of a block that overwrote, with persist_diffs =
\* true, a key that has diffs at the height before
C7_Witness ==
    /\ RolledBack
    /\ \E key \in DOMAIN rb.last.ops :
          /\ key \notin rb.last.volatile
          /\ rb.last.ops[key] # None
          /\ old_diff_key(key, rb.from) \in DOMAIN rb.last.db.diffs
          /\ new_diff_key(key, rb.target) \in DOMAIN db.diffs

\* ============================================ replay protection lifecycle
\* A block of the applier: the hashes of the previous block leave last/ for
\* buffer/ (those of `promoted` also enter all/), the hashes of the block's
\* transactions, none of which has a replay protection entry, enter last/,
\* and the block is committed
ApplyBlock(cap, promoted, new_hashes) ==
    /\ batch = EmptyBatch
    /\ promoted \subseteq iter_replay_protection(db)
    /\ \A hash \in new_hashes : ~has_replay_protection_entry(db, hash)
    /\ CommitStaged(block_replay_protection(db, batch, promoted, new_hashes),
                    cap, height, height, TRUE, TRUE)

NextReplay ==
    \/ Running /\ \E promoted \in SUBSET Hashes, new_hashes \in SUBSET Hashes :
           ApplyBlock(MaxHeight, promoted, new_hashes)
    \/ Running /\ RollbackOneOrNone

SpecReplay == Init /\ [][NextReplay]_vars

\* C9: after rollback from L to L-1, has_replay_protection_entry is true
\* for every hash for which it was true right after the block at L-1 was
\* committed and false for every hash that first entered last/ in the block
\* at L; every hash that was in buffer/ before the rollback is in last/ and
\* not in all/ afterwards.
C9_ReplayProtectionRestored ==
    RolledBack =>
        /\ \A hash \in Hashes :
              has_replay_protection_entry(rb.prev.db, hash)
                  => has_replay_protection_entry(db, hash)
        /\ \A hash \in iter_replay_protection(rb.last.db) :
              ~has_replay_protection_entry(rb.prev.db, hash)
                  => ~has_replay_protection_entry(db, hash)
        /\ \A hash \in iter_replay_protection_buffer(rb.last.db) :
              /\ IsSome(get_cf(db, "replay", last_key(hash)))
              /\ ~IsSome(get_cf(db, "replay", all_key(hash)))

\* A completed rollback of a block that had moved one hash to buffer/ and
\* all/, another to buffer/ only, and had put a new hash into last/
C9_Witness ==
    /\ RolledBack
    /\ \E h1, h2, h3 \in Hashes :
          /\ all_key(h1) \in DOMAIN rb.last.db.replay
          /\ buffer_key(h1) \in DOMAIN rb.last.db.replay
          /\ buffer_key(h2) \in DOMAIN rb.last.db.replay
          /\ ~has_replay_protection_entry(rb.last.db, h2)
          /\ last_key(h3) \in DOMAIN rb.last.db.replay
          /\ ~has_replay_protection_entry(rb.prev.db, h3)
          /\ has_replay_protection_entry(db, h1)
          /\ has_replay_protection_entry(db, h2)
          /\ ~has_replay_protection_entry(db, h3)

\* ================================================== rollbacks, any target
\* Blocks writing and deleting one key, and rollbacks to any target height,
\* any number of them in a row
RollbackTargets == 0..(MaxRollbackHeight + 1)

NextRepeat ==
    \/ \E key \in DiffKeys, value \in Vals :
           BatchWrite(MaxRollbackHeight, key, value, TRUE)
    \/ \E key \in DiffKeys : BatchDelete(MaxRollbackHeight, key, TRUE)
    \/ CommitTestBlock(MaxRollbackHeight)
    \/ \E target \in RollbackTargets : Rollback(target)

SpecRepeat == Init /\ [][NextRepeat]_vars

\* A step that sets rb to an outcome is a Rollback(rb'.target) step
RollbackStep == rb'.result # "none" /\ rb' # rb

C12_OnlySingleStep ==
    [][(RollbackStep /\ rb'.target \notin {LastHeight, LastHeight - 1})
          => (rb'.result # "ok" /\ db' = db)]_vars

\* Block L was undone by a rollback whose target is two below or one above L
C12_Witness ==
    /\ rb.result = "ok"
    /\ rb.from >= 2
    /\ rb.target \in {rb.from - 2, rb.from + 1}
    /\ LastHeight = rb.from - 1
    /\ db # rb.last.db

\* C13: a rollback that returns an error (no last block to read, or a
\* required pred/ key missing) has modified no column family.
C13_ErrorChangesNothing ==
    [][(RollbackStep /\ rb'.result = "err") => db' = db]_vars

\* A rollback of the only committed block failed on the missing pred/ keys
C13_Witness ==
    /\ rb.result = "err"
    /\ rb.from = 1
    /\ rb.target = 0
    /\ Len(snaps) = 1
    /\ read_last_block(db).kind = "some"
    /\ ~(required_pred_keys(read_last_block(db), 0) \subseteq DOMAIN db.state)
    /\ db = rb.last.db

\* ============================================ writes without persisted diffs
\* Batched and non-batched writes with persist_diffs = false, each key at
\* most once per height, from the first height on; a block may leave a key
\* alone
NextVolatile ==
    \/ \E key \in Keys, value \in Vals :
           Untouched(key) /\ BatchWrite(MaxHeight, key, value, FALSE)
    \/ \E key \in Keys, value \in Vals :
           Untouched(key) /\ WriteSubspaceVal(MaxHeight, key, value, FALSE)
    \/ CommitTestBlock(MaxHeight)

SpecVolatile == Init /\ [][NextVolatile]_vars

\* The keys written at the current height by writes already in the store
WrittenNow == DOMAIN touched \ DOMAIN batch.subspace

\* The height of the most recent write of `key` that reached the store,
\* 0 when there is none
LastWriteHeight(key) ==
    IF key \in WrittenNow THEN height
    ELSE IF WriteHeights(key) # {} THEN MaxOf(WriteHeights(key))
    ELSE 0

\* The heights at which DIFFS holds an entry for `key`
DiffHeights(d, key) == {k[1] : k \in {x \in DOMAIN d.diffs : x[3] = key}}

\* C14: after any number of committed writes of a key with persist_diffs =
\* false at distinct heights, DIFFS holds entries for the key at no height
\* but that of the most recent write, where the new value is recorded.
C14_OnlyLastDiffKept ==
    \A key \in Keys :
        /\ DiffHeights(db, key) \subseteq {LastWriteHeight(key)}
        /\ LastWriteHeight(key) > 0 =>
               get_cf(db, "diffs", new_diff_key(key, LastWriteHeight(key)))
                   = read_subspace_val(db, key)

\* A key written at the first height, left alone by the next block and
\* written again: only the entries of the third height remain
C14_Witness ==
    \E key \in Keys :
        /\ WriteHeights(key) = {FirstHeight, FirstHeight + 2}
        /\ DiffHeights(db, key) = {FirstHeight + 2}
        /\ old_diff_key(key, FirstHeight + 2) \in DOMAIN db.diffs

\* ======================================================== recorded diffs
\* C15: a write of a key with no committed value records only the new
\* entry at its height, a delete of a key with committed value v only the
\* old entry v, an overwrite both, and a delete of an absent key nothing.
C15_DiffsRecorded ==
    \A key \in DOMAIN written.ops :
        /\ get_cf(db, "diffs", old_diff_key(key, written.h))
               = Expected(key, written.h - 1)
        /\ get_cf(db, "diffs", new_diff_key(key, written.h))
               = written.ops[key]

\* The four cases at the second height: an overwrite, a delete of a stored
\* value, a write of an absent key and a delete of an absent key
C15_WitnessOverwrite ==
    \E key \in DOMAIN written.ops :
        /\ written.h = FirstHeight + 1
        /\ Expected(key, FirstHeight) # None
        /\ written.ops[key] # None
        /\ written.ops[key] # Expected(key, FirstHeight)
        /\ DiffHeights(db, key) \cap {written.h} # {}

\* ============================================== two writes in one batch
\* batch_write_subspace_val called twice for the same key and height, with
\* different values, before the batch is executed
BatchWriteTwice(cap, key, first, second, persist_diffs) ==
    /\ height <= cap
    /\ first # second
    /\ batch' = batch_write_subspace_val(db,
                     batch_write_subspace_val(db, batch, height, key, first,
                                              persist_diffs),
                     height, key, second, persist_diffs)
    /\ touched' = (key :> Some(second)) @@ touched
    /\ volatile' = IF persist_diffs THEN volatile ELSE volatile \cup {key}
    /\ rb' = NoRollback
    /\ UNCHANGED <<db, height, log, written, snaps>>

NextTwice ==
    \/ \E key \in Keys, first \in Vals, second \in Vals,
           persist_diffs \in BOOLEAN :
           Untouched(key)
           /\ BatchWriteTwice(MaxHeight, key, first, second, persist_diffs)
    \/ CommitTestBlock(MaxHeight)

SpecTwice == Init /\ [][NextTwice]_vars

\* C16: when one batch holds two writes of the same key at height h, after
\* exec_batch SUBSPACE holds the second value, the new entry of the key at h
\* is the second value and its old entry is the value committed before the
\* batch; DIFFS holds no other entry of the key at h.
C16_LastWriteWinsOnePair ==
    \A key \in DOMAIN written.ops :
        /\ read_subspace_val(db, key) = written.ops[key]
        /\ get_cf(db, "diffs", new_diff_key(key, written.h)) = written.ops[key]
        /\ get_cf(db, "diffs", old_diff_key(key, written.h))
               = Expected(key, written.h - 1)
        /\ {k \in DOMAIN db.diffs : k[1] = written.h /\ k[3] = key}
               \subseteq {old_diff_key(key, written.h),
                          new_diff_key(key, written.h)}

\* Two writes of a stored key were executed: the second value differs from
\* the stored one, so the first one was the stored value
C16_Witness ==
    \E key \in DOMAIN written.ops :
        /\ written.h > FirstHeight
        /\ Expected(key, written.h - 1) # None
        /\ written.ops[key] # Expected(key, written.h - 1)
        /\ read_subspace_val(db, key) = written.ops[key]
        /\ old_diff_key(key, written.h) \in DOMAIN db.diffs

\* ===================================================== size differences
\* The length of an optional value, 0 for none
LenOf(o) == IF IsSome(o) THEN Len(Unwrap(o)) ELSE 0

\* C17: a write returns the length of the written value minus the length of
\* the committed value of the key, the length of the written value when the
\* key has none; the batched variant returns the same number whatever the
\* batch holds.
C17_WriteSizeDiff ==
    \A key \in DiffKeys, value \in Vals :
        /\ write_subspace_val_size_diff(db, key, value)
               = LenOf(read_subspace_val(
                           write_subspace_val(db, height, key, value, TRUE), key))
                 - LenOf(read_subspace_val(db, key))
        /\ read_subspace_val(db, key) = None
               => write_subspace_val_size_diff(db, key, value) = Len(value)
        /\ batch_write_subspace_val_size_diff(db, batch, key, value)
               = write_subspace_val_size_diff(db, key, value)

\* A key with a committed value of length 2 and a shorter value staged in
\* the batch: writing a value of length 1 returns -1 in both variants
C17_Witness ==
    \E key \in DiffKeys, value \in Vals :
        /\ LenOf(read_subspace_val(db, key)) = 2
        /\ key \in DOMAIN batch.subspace
        /\ LenOf(batch.subspace[key]) = 1
        /\ Len(value) = 1
        /\ write_subspace_val_size_diff(db, key, value) = 0 - 1
        /\ batch_write_subspace_val_size_diff(db, batch, key, value) = 0 - 1

\* C18 as stated: a delete of a key whose committed value has length n > 0
\* returns -n, and 0 for an absent key.
C18_DeleteReturnsNegative ==
    \A key \in DiffKeys :
        /\ delete_subspace_val_size_diff(db, key)
               = 0 - LenOf(read_subspace_val(db, key))
        /\ batch_delete_subspace_val_size_diff(db, batch, key)
               = 0 - LenOf(read_subspace_val(db, key))

\* C18: a delete of a key whose committed value has length n > 0 returns n,
\* the length of the value it removes, and 0 for an absent key; the batched
\* variant returns the same number whatever the batch holds.
C18_DeleteReturnsPrevLen ==
    \A key \in DiffKeys :
        /\ delete_subspace_val_size_diff(db, key)
               = LenOf(read_subspace_val(db, key))
                 - LenOf(read_subspace_val(
                             delete_subspace_val(db, height, key, TRUE), key))
        /\ delete_subspace_val_size_diff(db, key) >= 0
        /\ batch_delete_subspace_val_size_diff(db, batch, key)
               = delete_subspace_val_size_diff(db, key)

\* A delete of a committed value of length 2 returns 2
C18_Witness ==
    \E key \in DiffKeys :
        /\ LenOf(read_subspace_val(db, key)) = 2
        /\ delete_subspace_val_size_diff(db, key) = 2
        /\ batch_delete_subspace_val_size_diff(db, batch, key) = 2

\* ======================================================= prefix iteration
\* The keys of test_prefix_iter, "0/a" "0/b" "0/c" "01/a" "1/a" "1/b" "1/c",
\* and the one-segment key "0"; its prefixes "0", "1" and "01"
IterKeys ==
    {<<48, 47, 97>>, <<48, 47, 98>>, <<48, 47, 99>>, <<48, 49, 47, 97>>,
     <<49, 47, 97>>, <<49, 47, 98>>, <<49, 47, 99>>, <<48>>}

IterPrefixes == {<<48>>, <<49>>, <<48, 49>>}

\* The value test_prefix_iter writes to every key
IterVal == <<0>>

\* One block at the first height that writes any of the keys
NextIter ==
    \/ \E key \in IterKeys :
           Untouched(key) /\ BatchWrite(FirstHeight, key, IterVal, TRUE)
    \/ CommitTestBlock(FirstHeight)

SpecIter == Init /\ [][NextIter]_vars

\* The keys an iteration yields, in its order
YieldedKeys(it) == [i \in 1..Len(it) |-> it[i][1]]

InByteOrder(keys) == \A i \in 1..(Len(keys) - 1) : LexLess(keys[i], keys[i + 1])

\* C19: iter_prefix(Some(p)) yields exactly the stored keys that start with
\* p followed by "/", each once with its value and in byte order, so the
\* prefix "0" never yields "01/a"; iter_prefix(None) yields every stored
\* key in byte order.
C19_PrefixIteration ==
    /\ \A p \in IterPrefixes :
           LET it == iter_prefix(db, Some(p))
               keys == YieldedKeys(it)
           IN  /\ {keys[i] : i \in 1..Len(keys)}
                      = {k \in DOMAIN db.subspace : IsPrefix(p \o Separator, k)}
               /\ InByteOrder(keys)
               /\ \A i \in 1..Len(it) : Some(it[i][2])
                                            = read_subspace_val(db, it[i][1])
    /\ LET keys == YieldedKeys(iter_prefix(db, None))
       IN  /\ {keys[i] : i \in 1..Len(keys)} = DOMAIN db.subspace
           /\ InByteOrder(keys)
    /\ \A i \in 1..Len(iter_prefix(db, Some(<<48>>))) :
           iter_prefix(db, Some(<<48>>))[i][1] # <<48, 49, 47, 97>>

\* Every key is stored: the prefix "0" yields "0/a", "0/b", "0/c" and the
\* iteration without prefix has "01/a" between "0/c" and "1/a"
C19_Witness ==
    /\ DOMAIN db.subspace = IterKeys
    /\ YieldedKeys(iter_prefix(db, Some(<<48>>)))
           = << <<48, 47, 97>>, <<48, 47, 98>>, <<48, 47, 99>> >>
    /\ YieldedKeys(iter_prefix(db, None))
           = << <<48>>, <<48, 47, 97>>, <<48, 47, 98>>, <<48, 47, 99>>,
                <<48, 49, 47, 97>>, <<49, 47, 97>>, <<49, 47, 98>>,
                <<49, 47, 99>> >>

\* ==================================================== replay protection probe
\* C20: has_replay_protection_entry(H) is true exactly when REPLAY holds
\* last/H or all/H; a hash stored only under buffer/ is not found.
C20_FoundInLastOrAll ==
    \A hash \in Hashes :
        /\ has_replay_protection_entry(db, hash)
               <=> (last_key(hash) \in DOMAIN db.replay
                    \/ all_key(hash) \in DOMAIN db.replay)
        /\ (/\ buffer_key(hash) \in DOMAIN db.replay
            /\ last_key(hash) \notin DOMAIN db.replay
            /\ all_key(hash) \notin DOMAIN db.replay)
               => ~has_replay_protection_entry(db, hash)

\* One hash is found under last/ only, one under all/ only, and one is
\* stored under buffer/ only and not found
C20_Witness ==
    \E h1, h2, h3 \in Hashes :
        /\ {k \in DOMAIN db.replay : k[2] = h1} = {last_key(h1)}
        /\ {k \in DOMAIN db.replay : k[2] = h2} = {all_key(h2)}
        /\ {k \in DOMAIN db.replay : k[2] = h3} = {buffer_key(h3)}
        /\ has_replay_protection_entry(db, h1)
        /\ has_replay_protection_entry(db, h2)
        /\ ~has_replay_protection_entry(db, h3)

\* ================================================ replay protection buckets
\* Blocks that finalize the replay protection state, promoting hashes of
\* last/ or of buffer/ to all/ and entering other hashes as new, interleaved
\* with any number of rollbacks
ApplyLifecycleBlock(cap, promoted, new_hashes) ==
    /\ batch = EmptyBatch
    /\ promoted \cap new_hashes = {}
    /\ promoted \subseteq (iter_replay_protection(db)
                              \cup iter_replay_protection_buffer(db))
    /\ \A hash \in new_hashes : ~has_replay_protection_entry(db, hash)
    /\ CommitStaged(block_replay_protection(db, batch, promoted, new_hashes),
                    cap, height, height, TRUE, TRUE)

NextLifecycle ==
    \/ \E promoted \in SUBSET Hashes, new_hashes \in SUBSET Hashes :
           ApplyLifecycleBlock(MaxHeight, promoted, new_hashes)
    \/ RollbackOneOrNone

SpecLifecycle == Init /\ [][NextLifecycle]_vars

\* The buckets that hold an entry for `hash`
Buckets(d, hash) == {k[1] : k \in {x \in DOMAIN d.replay : x[2] = hash}}

\* C21 as stated: every hash present in the store is in exactly one of
\* last/, buffer/ and all/.
C21_ExactlyOneBucket ==
    \A hash \in Hashes : Cardinality(Buckets(db, hash)) <= 1

\* C21: every hash present in the store is in one bucket, or in buffer/ and
\* all/ (promoted while it was moved to the buffer), or in last/ and buffer/
\* (restored by a rollback, or entered again after it was left in the
\* buffer only); never in last/ and all/.
C21_BucketsOfHash ==
    \A hash \in Hashes :
        Buckets(db, hash) \in {{}, {"last"}, {"buffer"}, {"all"},
                               {"buffer", "all"}, {"last", "buffer"}}

\* After a block one hash is in buffer/ and all/; after a rollback one hash
\* is in last/ and buffer/
C21_Witness ==
    /\ rb.result = "ok"
    /\ \E h1, h2 \in Hashes :
           /\ Buckets(rb.last.db, h1) = {"buffer", "all"}
           /\ Buckets(db, h1) = {"last", "buffer"}
           /\ Buckets(rb.last.db, h2) = {"last"}
           /\ Buckets(db, h2) = {}

\* C22: no hash is in last/, buffer/ and all/ at once.
C22_NeverAllThree ==
    \A hash \in Hashes : Buckets(db, hash) # {"last", "buffer", "all"}

\* A rollback has restored a hash that was in buffer/ and all/: it is now
\* in two buckets, last/ and buffer/, and no longer in all/
C22_Witness ==
    /\ rb.result = "ok"
    /\ \E hash \in Hashes :
           /\ all_key(hash) \in DOMAIN rb.last.db.replay
           /\ buffer_key(hash) \in DOMAIN rb.last.db.replay
           /\ last_key(hash) \in DOMAIN db.replay
           /\ buffer_key(hash) \in DOMAIN db.replay
           /\ all_key(hash) \notin DOMAIN db.replay

\* ====================================================== loading the state
\* A store that starts empty and gets one or two blocks, the first at any
\* of these heights (test_load_state starts at 0, test_rollback at 100)
LoadHeights == {0, 1, 8, 9, 99}

InitLoad ==
    /\ db = EmptyDB
    /\ batch = EmptyBatch
    /\ height \in LoadHeights
    /\ touched = EmptyMap
    /\ volatile = {}
    /\ log = {}
    /\ written = NoWrite
    /\ snaps = <<>>
    /\ rb = NoRollback

NextLoad ==
    \E m \in MetaVals, c \in MetaVals, new_epoch \in BOOLEAN,
       is_full_commit \in BOOLEAN :
        /\ Len(snaps) < 2
        /\ CommitBlock(height, m, c, new_epoch, is_full_commit)

SpecLoad == InitLoad /\ [][NextLoad]_vars

\* The block state read_last_block returns, against the entries of the
\* store at height h
ReadsBlockAt(r, d, h) ==
    /\ r.kind = "some"
    /\ r.height = h
    /\ \A n \in {"hash", "time", "epoch", "pred_epochs", "address_gen"} :
           Some(r[n]) = get_cf(d, "block", block_key(h, n))
    /\ Some(r.results) = get_cf(d, "block", results_key(h))
    /\ \A n \in LastBlockStateKeys : Some(r[n]) = get_cf(d, "state", state_key(n))

\* C23: after a block at any height is committed, read_last_block returns
\* Some block state with the height and the values written; on a store
\* without a block it returns Ok(None).
C23_LastBlockReadBack ==
    IF snaps = <<>> THEN read_last_block(db).kind = "none"
    ELSE ReadsBlockAt(read_last_block(db), db, written.h)

\* A full commit at height 9 on an empty store, which read_last_block fails
\* to read back
C23_Witness ==
    /\ Len(snaps) = 1
    /\ written.h = 9
    /\ snaps[1].is_full_commit
    /\ state_key("conversion_state") \in DOMAIN db.state
    /\ block_key(9, "hash") \in DOMAIN db.block
    /\ read_last_block(db).kind = "err"

\* ======================================================= committed blocks
\* The heights of the blocks in the store
CommittedHeights == FirstHeight..LastHeight

\* C24: after every committed block STATE["height"] is the height of that
\* block, and for every committed height that was not rolled back BLOCK
\* holds the hash, time, epoch, pred_epochs, address_gen and results of the
\* height and the base tree root and store, so that
\* read_merkle_tree_stores(epoch, h, Some(Base)) returns Some.
C24_BlockEntriesPresent ==
    /\ (snaps # <<>> /\ rb.result # "ok") => LastHeight = written.h
    /\ \A h \in CommittedHeights :
           /\ \A n \in {"hash", "time", "epoch", "pred_epochs", "address_gen"} :
                  block_key(h, n) \in DOMAIN db.block
           /\ results_key(h) \in DOMAIN db.block
           /\ base_tree_key(h, "root") \in DOMAIN db.block
           /\ base_tree_key(h, "store") \in DOMAIN db.block
           /\ \A epoch \in 0..MaxHeight :
                  IsSome(read_merkle_tree_stores(db, epoch, h, Some(Base)))

\* Two blocks committed, the second without full commit and in an epoch
\* that has no subtrees: its base tree is read, the whole forest is not
C24_Witness ==
    /\ Len(snaps) = 2
    /\ rb.result = "none"
    /\ LastHeight = FirstHeight + 1
    /\ ~snaps[2].is_full_commit
    /\ IsSome(read_merkle_tree_stores(db, LastEpoch, LastHeight, Some(Base)))
    /\ read_merkle_tree_stores(db, LastEpoch, LastHeight, None) = None

\* C25: after a block that is not the first is committed, pred/{name} in
\* STATE holds, for each of next_epoch_min_start_height,
\* next_epoch_min_start_time, update_epoch_blocks_delay and tx_queue, the
\* value {name} had right after the previous block; the first block, which
\* finds no previous value, writes no pred/{name} entry.
C25_PredHoldsPreviousValue ==
    /\ Len(snaps) = 2 =>
           \A n \in ShadowedKeys :
               /\ pred_key(n) \in DOMAIN snaps[2].db.state
               /\ snaps[2].db.state[pred_key(n)]
                      = snaps[1].db.state[state_key(n)]
    /\ (Len(snaps) = 1 /\ LastHeight = FirstHeight) =>
           \A n \in ShadowedKeys : pred_key(n) \notin DOMAIN snaps[1].db.state

\* A second block that changed each of the four values
C25_Witness ==
    /\ Len(snaps) = 2
    /\ db = snaps[2].db
    /\ \A n \in ShadowedKeys :
           /\ db.state[state_key(n)] # snaps[1].db.state[state_key(n)]
           /\ db.state[pred_key(n)] = snaps[1].db.state[state_key(n)]

\* The keys of the Merkle trees in BLOCK
TreeParts == {"root", "store"}
BaseTreeKeys == {base_tree_key(h, part) : h \in 0..(MaxHeight + 1), part \in TreeParts}
SubtreeKeys ==
    {subtree_key(t, e, part) :
        t \in SubtreeTypes, e \in 0..(MaxHeight + 1), part \in TreeParts}
ConversionKeys == {state_key("conversion_state"), pred_key("conversion_state")}

\* The block committed last and the store it was committed to
LastCommit == snaps[Len(snaps)]
StoreBefore == IF Len(snaps) = 2 THEN snaps[1].db ELSE EmptyDB
SameIn(cf, keys) ==
    \A k \in keys : get_cf(LastCommit.db, cf, k) = get_cf(StoreBefore, cf, k)

\* C26: a block committed with is_full_commit = false leaves
\* conversion_state, pred/conversion_state and the root and store of every
\* subtree as they were, and of the Merkle trees writes only the base tree
\* of its height; a block committed with is_full_commit = true writes
\* conversion_state, copies the value it had to pred/conversion_state and
\* writes the root and store of every subtree under the epoch of the block.
C26_FullCommitFrame ==
    snaps # <<>> =>
        /\ \A part \in TreeParts :
               get_cf(LastCommit.db, "block",
                      base_tree_key(LastCommit.st.height, part))
                   = Some(LastCommit.st.merkle_tree_stores)
        /\ SameIn("block", BaseTreeKeys \
                     {base_tree_key(LastCommit.st.height, part) :
                         part \in TreeParts})
        /\ ~LastCommit.is_full_commit =>
               /\ SameIn("state", ConversionKeys)
               /\ SameIn("block", SubtreeKeys)
        /\ LastCommit.is_full_commit =>
               /\ get_cf(LastCommit.db, "state", state_key("conversion_state"))
                      = Some(LastCommit.st.conversion_state)
               /\ get_cf(LastCommit.db, "state", pred_key("conversion_state"))
                      = IF IsSome(get_cf(StoreBefore, "state",
                                         state_key("conversion_state")))
                        THEN get_cf(StoreBefore, "state",
                                    state_key("conversion_state"))
                        ELSE get_cf(StoreBefore, "state",
                                    pred_key("conversion_state"))
               /\ \A t \in SubtreeTypes, part \in TreeParts :
                      get_cf(LastCommit.db, "block",
                             subtree_key(t, LastCommit.st.epoch, part))
                          = Some(LastCommit.st.merkle_tree_stores)
               /\ SameIn("block", SubtreeKeys \
                            {subtree_key(t, LastCommit.st.epoch, part) :
                                t \in SubtreeTypes, part \in TreeParts})

\* A full commit followed by a block without full commit that carries
\* another conversion state and other trees in the same epoch
C26_WitnessPartial ==
    /\ Len(snaps) = 2
    /\ snaps[1].is_full_commit /\ ~snaps[2].is_full_commit
    /\ snaps[1].st.epoch = snaps[2].st.epoch
    /\ snaps[1].st.conversion_state # snaps[2].st.conversion_state
    /\ snaps[1].st.merkle_tree_stores # snaps[2].st.merkle_tree_stores
    /\ db.state[state_key("conversion_state")] = snaps[1].st.conversion_state
    /\ \A t \in SubtreeTypes :
           db.block[subtree_key(t, snaps[2].st.epoch, "root")]
               = snaps[1].st.merkle_tree_stores

\* ========================================================= pruned subtrees
\* prune_merkle_tree_store(batch, store_type, epoch) on a fresh batch and
\* exec_batch(batch)
PruneAndExec(store_type, epoch) ==
    /\ batch = EmptyBatch
    /\ db' = write_batch(db, prune_merkle_tree_store(EmptyBatch, store_type, epoch))
    /\ written' = [h |-> height,
                   ops |-> (subtree_key(store_type, epoch, "root") :> None)
                           @@ (subtree_key(store_type, epoch, "store") :> None)]
    /\ UNCHANGED <<batch, height, touched, volatile, log, snaps, rb>>

\* Blocks with either flag, whose trees differ from one height to the
\* next, and prunes of subtrees
TreeVal(h) == (h % 2) + 1

NextMerkle ==
    \/ \E new_epoch, is_full_commit \in BOOLEAN :
           CommitBlock(MaxRollbackHeight, TreeVal(height), TreeVal(height),
                       new_epoch, is_full_commit)
    \/ \E store_type \in SubtreeTypes, epoch \in 0..MaxRollbackHeight :
           PruneAndExec(store_type, epoch)

SpecMerkle == Init /\ [][NextMerkle]_vars

\* The store types a read asks for
Requested(store_type) ==
    IF IsSome(store_type) THEN {Unwrap(store_type)} ELSE StoreTypes

\* read_merkle_tree_stores on the store d answers None exactly when an
\* entry of a requested store type is missing, and else what is stored
ReadsWhatIsStored(d) ==
    \A epoch \in 0..(MaxRollbackHeight + 1), base_height \in 0..(MaxRollbackHeight + 1),
       store_type \in {None} \cup {Some(t) : t \in StoreTypes} :
        LET r == read_merkle_tree_stores(d, epoch, base_height, store_type)
        IN  IF \E t \in Requested(store_type), part \in TreeParts :
                   get_cf(d, "block", tree_key(t, epoch, base_height, part)) = None
            THEN r = None
            ELSE /\ IsSome(r)
                 /\ \A t \in Requested(store_type) :
                        /\ Some(Unwrap(r).roots[t])
                               = get_cf(d, "block",
                                        tree_key(t, epoch, base_height, "root"))
                        /\ Some(Unwrap(r).stores[t])
                               = get_cf(d, "block",
                                        tree_key(t, epoch, base_height, "store"))

\* A step that executed a prune
PruneStep == height' = height /\ written' # written

\* C27: read_merkle_tree_stores(epoch, base_height, store_type) returns
\* None whenever the root or the store of a requested store type is missing
\* (the base tree at base_height, the subtrees at epoch) and Some otherwise;
\* after prune_merkle_tree_store(type, epoch) is executed the root and the
\* store of that subtree and epoch are gone, a read of that pair returns
\* None, and every other entry of the store is unchanged.
C27_ReadAndPrune ==
    [][/\ db' # db => ReadsWhatIsStored(db')
       /\ PruneStep =>
              /\ \A k \in DOMAIN written'.ops :
                     /\ k \notin DOMAIN db'.block
                     /\ k[3] \in TreeParts
                     /\ \A base_height \in 0..(MaxRollbackHeight + 1) :
                            read_merkle_tree_stores(db', k[2], base_height,
                                                    Some(k[1])) = None
              /\ db'.block = [k \in DOMAIN db.block \ DOMAIN written'.ops |->
                                 db.block[k]]
              /\ [db' EXCEPT !.block = db.block] = db]_vars

\* A subtree pruned after the full commit that wrote it, the other subtree
\* of that epoch still readable
C27_Witness ==
    /\ snaps # <<>>
    /\ written.h = height
    /\ \E t \in SubtreeTypes, u \in SubtreeTypes :
          /\ t # u
          /\ subtree_key(t, LastEpoch, "root") \in DOMAIN written.ops
          /\ subtree_key(t, LastEpoch, "root") \in DOMAIN LastCommit.db.block
          /\ subtree_key(t, LastEpoch, "store") \in DOMAIN LastCommit.db.block
          /\ read_merkle_tree_stores(db, LastEpoch, LastHeight, Some(t)) = None
          /\ IsSome(read_merkle_tree_stores(db, LastEpoch, LastHeight, Some(u)))
          /\ read_merkle_tree_stores(db, LastEpoch, LastHeight, None) = None

\* ================================================ reads during a commit
\* The store the i-th lookup of a read sees when the batch of a block is
\* executed after the n-th lookup: d0 before the commit, d1 after it
SeenBy(d0, d1, n, i) == IF i <= n THEN d0 ELSE d1

\* The loop of read_subspace_val_with_height, its lookups numbered from i:
\* get_cf of old, key_may_exist_cf and get_cf of new, read_subspace_val
RECURSIVE read_successors_during_commit(_, _, _, _, _, _, _)
read_successors_during_commit(d0, d1, n, i, key, raw_height, last_height) ==
    LET old_val == get_cf(SeenBy(d0, d1, n, i), "diffs",
                          old_diff_key(key, raw_height))
        may_exist == IsSome(get_cf(SeenBy(d0, d1, n, i + 1), "diffs",
                                   new_diff_key(key, raw_height)))
        new_val == get_cf(SeenBy(d0, d1, n, i + 2), "diffs",
                          new_diff_key(key, raw_height))
    IN  IF IsSome(old_val) THEN old_val
        ELSE IF may_exist /\ IsSome(new_val) THEN None
             ELSE IF raw_height >= last_height
                  THEN read_subspace_val(SeenBy(d0, d1, n, i + 3), key)
                  ELSE read_successors_during_commit(d0, d1, n, i + 4, key,
                                                     raw_height + 1, last_height)

\* read_subspace_val_with_height whose first n lookups are answered before
\* exec_batch writes the batch and the others after it
read_with_height_during_commit(d0, d1, n, key, h, last_height) ==
    LET new_val == get_cf(SeenBy(d0, d1, n, 1), "diffs", new_diff_key(key, h))
        may_exist == IsSome(get_cf(SeenBy(d0, d1, n, 2), "diffs",
                                   old_diff_key(key, h)))
        old_val == get_cf(SeenBy(d0, d1, n, 3), "diffs", old_diff_key(key, h))
    IN  IF IsSome(new_val) THEN new_val
        ELSE IF may_exist /\ IsSome(old_val) THEN None
             ELSE read_successors_during_commit(d0, d1, n, 4, key, h + 1,
                                                last_height)

\* The numbers of lookups after which the commit can come
CommitPoints == 0..(4 * (MaxHeight + 1))

\* Blocks that write or delete one key at most once, with either
\* persist_diffs flag
NextConcurrent ==
    \/ \E key \in DiffKeys, value \in Vals, persist_diffs \in BOOLEAN :
           Untouched(key) /\ BatchWrite(MaxHeight, key, value, persist_diffs)
    \/ \E key \in DiffKeys, persist_diffs \in BOOLEAN :
           Untouched(key) /\ BatchDelete(MaxHeight, key, persist_diffs)
    \/ CommitTestBlock(MaxHeight)

SpecConcurrent == Init /\ [][NextConcurrent]_vars

\* The read of key at h with last height last_height, started when the
\* store was snaps[1].db and overlapping the commit that made it
\* snaps[2].db, returns what it returns before or after the commit
Unmixed(key, h, last_height) ==
    \A n \in CommitPoints :
        read_with_height_during_commit(snaps[1].db, snaps[2].db, n,
                                       key, h, last_height)
            \in {read_subspace_val_with_height(snaps[1].db, key, h, last_height),
                 read_subspace_val_with_height(snaps[2].db, key, h, last_height)}

VisitorWrite(cf, key, value) ==
    /\ batch = EmptyBatch
    /\ \E r \in {overwrite_entry(db, EmptyBatch, None, cf, key, value)} :
           /\ r.result = "ok"
           /\ db' = write_batch(db, r.batch)
    /\ written' = [h |-> LastHeight, ops |-> (<<cf, key>> :> Some(value))]
    /\ UNCHANGED <<batch, height, touched, volatile, log, snaps, rb>>

\* The entries a visitor writes: a column family, a key and a value
VisitorEntries ==
    {<<"state", state_key("tx_queue"), 0>>,
     <<"block", block_key(FirstHeight, "hash"), 0>>,
     <<"diffs", new_diff_key("delete", FirstHeight), <<1>>>>,
     <<"replay", last_key("tx1"), <<>>>>}
    \cup {<<"subspace", key, value>> : key \in DiffKeys, value \in Vals}

\* Blocks that write or delete one key, and one visitor batch after a block
NextVisitor ==
    \/ \E key \in DiffKeys, value \in Vals :
           Untouched(key) /\ BatchWrite(MaxRollbackHeight, key, value, TRUE)
    \/ \E key \in DiffKeys :
           Untouched(key) /\ BatchDelete(MaxRollbackHeight, key, TRUE)
    \/ CommitTestBlock(MaxRollbackHeight)
    \/ \E e \in VisitorEntries :
           /\ snaps # <<>>
           /\ db = LastCommit.db
           /\ VisitorWrite(e[1], e[2], e[3])

SpecVisitor == Init /\ [][NextVisitor]_vars

\* A step that executed the batch of a visitor
VisitorStep == height' = height /\ written' # written

\* The column families of the store
ColumnFamilies == {"subspace", "diffs", "state", "block", "replay"}

\* C29: after the update visitor writes v to the SUBSPACE key k and its
\* batch is executed at the latest committed height L, read_subspace_val(k)
\* is Some(v), DIFFS holds {L}/new/{k} = v and
\* read_subspace_val_with_height(k, L, L) is Some(v); a visitor write to
\* another column family changes only that key of that column family and
\* adds no DIFFS entry.
C29_VisitorWrite ==
    [][VisitorStep =>
          \A e \in DOMAIN written'.ops :
              LET v == Unwrap(written'.ops[e])
              IN  IF e[1] = "subspace"
                  THEN /\ read_subspace_val(db', e[2]) = Some(v)
                       /\ get_cf(db', "diffs", new_diff_key(e[2], LastHeight))
                              = Some(v)
                       /\ read_subspace_val_with_height(db', e[2], LastHeight,
                                                        LastHeight) = Some(v)
                       /\ db'.subspace = (e[2] :> v) @@ db.subspace
                       /\ db'.diffs = (new_diff_key(e[2], LastHeight) :> v)
                                          @@ db.diffs
                       /\ \A cf \in ColumnFamilies \ {"subspace", "diffs"} :
                              db'[cf] = db[cf]
                  ELSE /\ db'[e[1]] = (e[2] :> v) @@ db[e[1]]
                       /\ \A cf \in ColumnFamilies \ {e[1]} : db'[cf] = db[cf]]_vars

\* A visitor write that replaced, in SUBSPACE and in the new diff of the
\* latest height, the value the last block had written
C29_Witness ==
    /\ snaps # <<>>
    /\ batch = EmptyBatch
    /\ \E key \in DiffKeys :
          /\ <<"subspace", key>> \in DOMAIN written.ops
          /\ key \in DOMAIN LastCommit.ops
          /\ LastCommit.ops[key] # None
          /\ LastCommit.ops[key] # written.ops[<<"subspace", key>>]
          /\ read_subspace_val(db, key) = written.ops[<<"subspace", key>>]
          /\ get_cf(db, "diffs", new_diff_key(key, LastHeight))
                 = written.ops[<<"subspace", key>>]
          /\ get_cf(LastCommit.db, "diffs", new_diff_key(key, LastHeight))
                 = LastCommit.ops[key]

\* ============================================ history of the kept diff
\* The height of the write of `key` before its latest one, the height of
\* the latest one when there is no other
PrecedingWriteHeight(key) ==
    LET latest == MaxOf(WriteHeights(key))
    IN  IF WriteHeights(key) = {latest} THEN latest
        ELSE MaxOf(WriteHeights(key) \ {latest})

\* C30: for a key written only with persist_diffs = false, after any
\* sequence of committed writes the historical read at p with the last
\* height returns the value the key had after block p, for every p from
\* the height of the write that precedes the latest write of the key up to
\* the last height.
C30_HistoryFromPrecedingWrite ==
    (batch = EmptyBatch /\ touched = EmptyMap) =>
        \A key \in Keys :
            WriteHeights(key) # {} =>
                \A p \in PrecedingWriteHeight(key)..LastHeight :
                    read_subspace_val_with_height(db, key, p, LastHeight)
                        = Expected(key, p)

\* A key written at the first height and again two blocks later with
\* another value, read at the height between the two writes
C30_Witness ==
    /\ batch = EmptyBatch /\ touched = EmptyMap
    /\ \E key \in Keys :
          /\ WriteHeights(key) = {FirstHeight, FirstHeight + 2}
          /\ LastHeight = FirstHeight + 2
          /\ Expected(key, FirstHeight + 1) # Expected(key, LastHeight)
          /\ DiffHeights(db, key) = {LastHeight}
          /\ read_subspace_val_with_height(db, key, FirstHeight + 1, LastHeight)
                 = Expected(key, FirstHeight)

\* ============================================ the workers of the restore
\* C31: the store a rollback produces does not depend on the order in
\* which the parallel workers of the SUBSPACE restore stage their
\* operations: in every order each SUBSPACE key gets exactly one put or
\* delete, the restore of the keys deleted in block L is staged after the
\* workers, and the store is the same.
C31_RestoreOrderIrrelevant ==
    RolledBack =>
        \A order \in Orders(DOMAIN rb.last.db.subspace) :
            /\ \A key \in DOMAIN rb.last.db.subspace :
                   Cardinality({i \in DOMAIN parallel_ops(rb.last.db, order,
                                                          rb.target, rb.from) :
                                   parallel_ops(rb.last.db, order, rb.target,
                                                rb.from)[i][1] = key}) = 1
            /\ write_batch(rb.last.db,
                           rollback_batch_in_order(rb.last.db,
                               read_last_block(rb.last.db), order)) = db

\* A rollback of a store with two keys whose workers put another value
\* for one key and deleted the other
C31_Witness ==
    /\ RolledBack
    /\ Cardinality(DOMAIN rb.last.db.subspace) = 2
    /\ Cardinality(DOMAIN db.subspace) = 1
    /\ db.subspace # rb.last.db.subspace
    /\ \E key \in DOMAIN rb.last.db.subspace :
          /\ key \in DOMAIN db.subspace
          /\ db.subspace[key] # rb.last.db.subspace[key]

\* =================================================== keys touched twice
\* C32: after any committed batch at height L, also one that writes and
\* then deletes a key or deletes and then writes it, the historical read
\* of every key at L with last height L equals the latest read of the key.
C32_HistoricalAtLastIsLatest ==
    (batch = EmptyBatch /\ touched = EmptyMap /\ Running) =>
        \A key \in Keys :
            read_subspace_val_with_height(db, key, LastHeight, LastHeight)
                = read_subspace_val(db, key)

\* =========================================== the visitor and the history
\* RocksDBUpdateVisitor::new, delete(key, cf), take_batch and exec_batch of
\* the batch taken; the delete panics without a stored height
VisitorDelete(cf, key) ==
    /\ batch = EmptyBatch
    /\ state_key("height") \in DOMAIN db.state
    /\ db' = write_batch(db,
                 IF cf = "subspace"
                 THEN batch_delete_subspace_val(db, EmptyBatch, LastHeight,
                                                key, TRUE)
                 ELSE delete_cf(EmptyBatch, cf, key))
    /\ written' = [h |-> LastHeight, ops |-> (<<cf, key>> :> None)]
    /\ UNCHANGED <<batch, height, touched, volatile, log, snaps, rb>>

\* Blocks that write or delete one key, one visitor batch on a SUBSPACE
\* key after a block, and a rollback
NextOutOfBand ==
    \/ Running /\ \E key \in DiffKeys, value \in Vals :
           Untouched(key) /\ BatchWrite(MaxHeight, key, value, TRUE)
    \/ Running /\ \E key \in DiffKeys :
           Untouched(key) /\ BatchDelete(MaxHeight, key, TRUE)
    \/ Running /\ CommitTestBlock(MaxHeight)
    \/ Running /\ \E key \in DiffKeys, value \in Vals :
           /\ snaps # <<>>
           /\ db = LastCommit.db
           /\ VisitorWrite("subspace", key, value)
    \/ Running /\ \E key \in DiffKeys :
           /\ snaps # <<>>
           /\ db = LastCommit.db
           /\ VisitorDelete("subspace", key)
    \/ Running /\ RollbackOneOrNone

SpecOutOfBand == Init /\ [][NextOutOfBand]_vars

\* The historical reads of the heights below the latest are the same in
\* the stores d and e
SameHistoryBelow(d, e, key, last_height) ==
    \A p \in FirstHeight..(last_height - 1) :
        read_subspace_val_with_height(d, key, p, last_height)
            = read_subspace_val_with_height(e, key, p, last_height)

\* A rollback that follows the batch of a visitor
RollbackAfterVisitor ==
    /\ RolledBack'
    /\ rb' # rb
    /\ snaps # <<>>
    /\ db # LastCommit.db

\* C33: a visitor write or delete of a SUBSPACE key k at the latest height
\* L leaves the historical reads of k at every height below L as they
\* were, whether or not block L had modified k, and a later rollback to
\* L-1 restores k to the value it had after block L-1.
C33_VisitorKeepsHistory ==
    [][/\ VisitorStep =>
              \A e \in DOMAIN written'.ops :
                  SameHistoryBelow(db, db', e[2], LastHeight)
       /\ RollbackAfterVisitor =>
              \A key \in DiffKeys :
                  get_cf(db', "subspace", key)
                      = get_cf(rb'.prev.db, "subspace", key)]_vars

\* ======================================== rollback of non-persisted keys
\* Blocks that write and delete keys with persist_diffs = false only, any
\* number of times per block, and a rollback
NextVolatileRollback ==
    \/ Running /\ \E key \in Keys, value \in Vals :
           BatchWrite(MaxRollbackHeight, key, value, FALSE)
    \/ Running /\ \E key \in Keys :
           BatchDelete(MaxRollbackHeight, key, FALSE)
    \/ Running /\ CommitTestBlock(MaxRollbackHeight)
    \/ Running /\ RollbackOneOrNone

SpecVolatileRollback == Init /\ [][NextVolatileRollback]_vars

\* C34: a rollback from L to L-1 restores the SUBSPACE value of the keys
\* block L touched with persist_diffs = false: a key overwritten or deleted
\* in block L has the value it had after block L-1, and a key created in
\* block L is gone.
C34_VolatileKeysRestored ==
    RolledBack =>
        \A key \in rb.last.volatile :
            get_cf(db, "subspace", key) = get_cf(rb.prev.db, "subspace", key)

\* A completed rollback of a block that had overwritten, with
\* persist_diffs = false, a key whose earlier diff it removed
C34_Witness ==
    /\ RolledBack
    /\ \E key \in rb.last.volatile :
          /\ IsSome(get_cf(rb.prev.db, "diffs", new_diff_key(key, rb.target)))
          /\ DiffHeights(rb.last.db, key) = {rb.from}
          /\ IsSome(get_cf(rb.prev.db, "subspace", key))
          /\ IsSome(get_cf(rb.last.db, "subspace", key))
          /\ get_cf(rb.last.db, "subspace", key) # get_cf(rb.prev.db, "subspace", key)
          /\ get_cf(db, "subspace", key) = get_cf(rb.prev.db, "subspace", key)

\* ==================================================== the per-height scan
\* The heights of the per-height entries of BLOCK
BlockHeights(d) == {k[2] : k \in {x \in DOMAIN d.block : x[1] = "height"}}

\* C35: the scan of BLOCK in read_last_block visits exactly the entries
\* whose key starts with "{h}/" for the stored height h, also for heights
\* whose decimal successor has more digits (9, 99): the upper bound
\* "{h+1}/" excludes no entry of height h and admits no entry of another
\* height.
C35_ScanVisitsStoredHeight ==
    state_key("height") \in DOMAIN db.state =>
        \A entry_height \in BlockHeights(db) :
            in_block_scan(LastHeight, entry_height) <=> entry_height = LastHeight

\* ================================================ the reader's decision
\* The heights in (h, last_height] at which DIFFS holds an old or a new
\* entry of the key
DiffsWithin(d, key, h, last_height) ==
    {i \in (h + 1)..last_height :
        \/ IsSome(get_cf(d, "diffs", old_diff_key(key, i)))
        \/ IsSome(get_cf(d, "diffs", new_diff_key(key, i)))}

\* The result decided from the diffs of the key at the heights h to
\* last_height and from the latest value
DecidedWithin(d, key, h, last_height) ==
    IF IsSome(get_cf(d, "diffs", new_diff_key(key, h)))
    THEN get_cf(d, "diffs", new_diff_key(key, h))
    ELSE IF IsSome(get_cf(d, "diffs", old_diff_key(key, h))) THEN None
    ELSE IF DiffsWithin(d, key, h, last_height) = {}
         THEN read_subspace_val(d, key)
         ELSE get_cf(d, "diffs",
                     old_diff_key(key, MinOf(DiffsWithin(d, key, h, last_height))))

\* C36: read_subspace_val_with_height(k, h, last_h) with h <= last_h
\* returns new@h if present, None if only old@h is present, else the first
\* old@i for i in h+1..last_h, None if a new@i without old@i comes first,
\* and the latest value when no diff of k lies in (h, last_h]; a diff
\* stored above last_h does not affect the result.
C36_DecidedWithinLastHeight ==
    \A key \in Keys : \A last_height \in FirstHeight..LastHeight :
        \A h \in FirstHeight..last_height :
            read_subspace_val_with_height(db, key, h, last_height)
                = DecidedWithin(db, key, h, last_height)

\* ======================================================= the height walks
\* The heights a write or a read is called with
WalkHeights == 0..(MaxHeight + 1)

\* The backward walk for a write of the key at h ends as the code's loop
\* does: at the first height with a diff, or below first()
BackwardWalkEnds(key, h) ==
    LET walk == backward_walk(db, key, h, FALSE)
    IN  /\ h <= FirstHeight => walk = <<>>
        /\ Len(walk) <= h
        /\ \A i \in DOMAIN walk :
               /\ walk[i] = h - i
               /\ walk[i] >= 0
               /\ i < Len(walk) =>
                      walk[i] >= FirstHeight /\ ~has_diff(db, key, walk[i])
        /\ walk # <<>> =>
               \/ walk[Len(walk)] >= FirstHeight
                  /\ has_diff(db, key, walk[Len(walk)])
               \/ walk[Len(walk)] = prev_height(FirstHeight)
        /\ \A k \in DOMAIN remove_last_diffs(db, EmptyBatch, key,
                                             prev_height(h)).diffs :
               walk # <<>> /\ k[1] = walk[Len(walk)]

\* The forward walk of a read of the key at h ends at a diff or when
\* raw_height has reached last_height
ForwardWalkEnds(key, h, last_height) ==
    LET walk == forward_walk(db, key, h + 1, last_height)
    IN  /\ walk # <<>>
        /\ \A i \in DOMAIN walk :
               /\ walk[i] = h + i
               /\ i < Len(walk) =>
                      walk[i] < last_height /\ ~has_diff(db, key, walk[i])
        /\ \/ has_diff(db, key, walk[Len(walk)])
           \/ walk[Len(walk)] >= last_height
        /\ h < last_height => walk[Len(walk)] <= last_height

\* C37: both height walks terminate: the backward walk of a write with
\* persist_diffs = false at h stops at the first height below h that has
\* an old or a new diff of the key, or after height first() = 1, never
\* computes a height below 0 and does not start for h <= first(); the
\* forward walk of the historical reader stops at the latest when its
\* height reaches last_h.
C37_WalksTerminate ==
    \A key \in Keys : \A h \in WalkHeights :
        /\ BackwardWalkEnds(key, h)
        /\ \A last_height \in WalkHeights : ForwardWalkEnds(key, h, last_height)

\* A store in which the backward walk from the height after the last runs
\* down to below first() for one key and stops at once for the other, and
\* a read walks forward over more than one height
C37_Witness ==
    /\ batch = EmptyBatch /\ touched = EmptyMap
    /\ LastHeight = MaxHeight
    /\ \E key \in Keys, other \in Keys :
          /\ Len(backward_walk(db, key, MaxHeight + 1, FALSE)) = MaxHeight + 1
          /\ backward_walk(db, other, MaxHeight + 1, FALSE) = <<MaxHeight>>
          /\ Len(forward_walk(db, other, FirstHeight, MaxHeight)) > 1

\* ===================================== pruning the replay protection buffer
\* The replay protection keys a batch stages, and how many operations a
\* batch holds before another is staged
PruneHashes == {"tx1", "tx2"}
PruneKeys == {last_key(hash) : hash \in PruneHashes}
             \cup {buffer_key(hash) : hash \in PruneHashes}
             \cup {all_key(hash) : hash \in PruneHashes}
StagedSizes == 0..1

\* The history of the open batch: the committed buffer/ keys when
\* prune_replay_protection_buffer was called, the operations staged after
\* the call, and whether the batch has been executed
Pruned == "pruned" \in DOMAIN written
StagedAfterPrune(key, op) ==
    IF Pruned /\ ~written.done
    THEN [written EXCEPT !.ops = (key :> op) @@ @]
    ELSE NoWrite

\* write_replay_protection_entry(batch, key)
BatchReplayWrite(key) ==
    /\ Cardinality(DOMAIN batch.replay \ (IF Pruned THEN written.pruned ELSE {}))
           \in StagedSizes
    /\ batch' = write_replay_protection_entry(batch, key)
    /\ written' = StagedAfterPrune(key, Some(<<>>))
    /\ UNCHANGED <<db, height, touched, volatile, log, snaps, rb>>

\* delete_replay_protection_entry(batch, key)
BatchReplayDelete(key) ==
    /\ Cardinality(DOMAIN batch.replay \ (IF Pruned THEN written.pruned ELSE {}))
           \in StagedSizes
    /\ batch' = delete_replay_protection_entry(batch, key)
    /\ written' = StagedAfterPrune(key, None)
    /\ UNCHANGED <<db, height, touched, volatile, log, snaps, rb>>

\* prune_replay_protection_buffer(batch), once in a batch
BatchPrune ==
    /\ IF Pruned THEN written.done ELSE TRUE
    /\ batch' = prune_replay_protection_buffer(db, batch)
    /\ written' = [h |-> 0, ops |-> EmptyMap, done |-> FALSE,
                   pruned |-> {k \in DOMAIN db.replay : k[1] = "buffer"},
                   staged |-> batch.replay, before |-> db.replay]
    /\ UNCHANGED <<db, height, touched, volatile, log, snaps, rb>>

\* exec_batch(batch)
ExecBatch ==
    /\ batch # EmptyBatch
    /\ db' = write_batch(db, batch)
    /\ batch' = EmptyBatch
    /\ written' = IF Pruned /\ ~written.done
                  THEN [written EXCEPT !.done = TRUE] ELSE NoWrite
    /\ UNCHANGED <<height, touched, volatile, log, snaps, rb>>

NextPrune ==
    \/ \E key \in PruneKeys : BatchReplayWrite(key)
    \/ \E key \in PruneKeys : BatchReplayDelete(key)
    \/ BatchPrune
    \/ ExecBatch

SpecPrune == Init /\ [][NextPrune]_vars

\* C38: prune_replay_protection_buffer stages the deletion of every buffer/
\* entry of the committed store and of nothing else; after the batch is
\* executed no buffer/ entry committed before remains unless it was written
\* again after the prune call, every last/ and all/ entry is as the other
\* operations of the batch leave it, and a buffer/ entry written into the
\* batch after the prune call is present.
C38_PruneStagesCommittedBuffer ==
    /\ (Pruned /\ ~written.done /\ written.ops = EmptyMap) =>
           /\ \A k \in written.pruned : get_cf(batch, "replay", k) = Some(None)
           /\ \A k \in (DOMAIN batch.replay \cup DOMAIN written.staged)
                              \ written.pruned :
                  get_cf(batch, "replay", k) = get_cf([replay |-> written.staged],
                                                      "replay", k)
           /\ \A cf \in {"subspace", "diffs", "state", "block"} :
                  batch[cf] = EmptyMap
    /\ (Pruned /\ written.done) =>
           /\ \A k \in written.pruned :
                  k \notin DOMAIN written.ops => k \notin DOMAIN db.replay
           /\ \A k \in DOMAIN written.ops :
                  (k \in DOMAIN db.replay) <=> (written.ops[k] # None)
           /\ \A k \in PruneKeys \ (written.pruned \cup DOMAIN written.ops) :
                  (k \in DOMAIN db.replay) <=>
                      IF k \in DOMAIN written.staged
                      THEN written.staged[k] # None
                      ELSE k \in DOMAIN written.before

\* An executed batch that pruned two committed buffer/ entries and wrote one
\* of them again after the prune, over a store that holds a last/ entry
C38_Witness ==
    /\ Pruned /\ written.done
    /\ \E k \in written.pruned, other \in written.pruned :
          /\ k # other
          /\ k \notin DOMAIN db.replay
          /\ other \in DOMAIN written.ops
          /\ other \in DOMAIN db.replay
    /\ \E hash \in PruneHashes :
          /\ last_key(hash) \in DOMAIN written.before
          /\ last_key(hash) \in DOMAIN db.replay

\* ==================================================== the stored height
\* The replay protection keys, and the entries a visitor writes, among them
\* the STATE key "height"
HeightReplayKeys == {buffer_key("tx1")}
HeightVisitorEntries ==
    {<<"subspace", key, <<1>>>> : key \in DiffKeys}
    \cup {<<"state", state_key("height"), FirstHeight>>}

\* Blocks with subspace and replay protection operations and a prune of the
\* buffer; after a block one Merkle prune or one visitor batch; a rollback
NextHeight ==
    \/ Running /\ \E key \in DiffKeys, value \in {<<1>>} :
           Untouched(key) /\ BatchWrite(MaxRollbackHeight, key, value, TRUE)
    \/ Running /\ \E key \in DiffKeys :
           Untouched(key) /\ BatchDelete(MaxRollbackHeight, key, TRUE)
    \/ Running /\ \E key \in HeightReplayKeys :
           height <= MaxRollbackHeight /\ BatchReplayWrite(key)
    \/ Running /\ \E key \in HeightReplayKeys :
           height <= MaxRollbackHeight /\ BatchReplayDelete(key)
    \/ Running /\ height <= MaxRollbackHeight /\ BatchPrune
    \/ Running /\ CommitTestBlock(MaxRollbackHeight)
    \/ Running /\ \E store_type \in SubtreeTypes, epoch \in {FirstHeight} :
           /\ snaps # <<>>
           /\ db = LastCommit.db
           /\ PruneAndExec(store_type, epoch)
    \/ Running /\ \E e \in HeightVisitorEntries :
           /\ snaps # <<>>
           /\ db = LastCommit.db
           /\ VisitorWrite(e[1], e[2], e[3])
    \/ Running /\ \E key \in DiffKeys :
           /\ snaps # <<>>
           /\ db = LastCommit.db
           /\ VisitorDelete("subspace", key)
    \/ Running /\ RollbackOneOrNone

SpecHeight == Init /\ [][NextHeight]_vars

\* The steps that commit a block, and the visitor batches that write the
\* STATE key "height"
CommitStep == snaps' # snaps /\ snaps' # <<>>
VisitorHeightStep ==
    /\ VisitorStep
    /\ <<"state", state_key("height")>> \in DOMAIN written'.ops

\* The pred/{name} shadows of the stores d and e are the same
SameShadows(d, e) ==
    \A name \in ShadowedKeys \cup {"conversion_state", "height"} :
        get_cf(d, "state", pred_key(name)) = get_cf(e, "state", pred_key(name))

\* Every change of STATE["height"] comes from a step in `causes`, a block
\* commit sets it to the height of the block and a rollback lowers it by one
HeightChangesOnlyBy(other_cause) ==
    LET before == get_cf(db, "state", state_key("height"))
        after == get_cf(db', "state", state_key("height"))
    IN  /\ after # before =>
              \/ CommitStep
              \/ RollbackStep /\ rb'.result = "ok"
              \/ other_cause
        /\ CommitStep => after = Some(height)
        /\ (RollbackStep /\ rb'.result = "ok") =>
              /\ IsSome(before)
              /\ after = Some(Unwrap(before) - 1)
        /\ RollbackStep => SameShadows(db, db')

\* C39 as stated: STATE["height"] changes only through a committed block,
\* which sets it to the height of the block, or through a rollback, which
\* lowers it by one; no other operation, visitor overwrites included,
\* changes it, and rollback leaves every pred/{name} shadow unchanged.
C39_HeightOnlyByCommitOrRollback ==
    [][HeightChangesOnlyBy(FALSE)]_vars

\* C39: STATE["height"] changes only through a committed block, which sets
\* it to the height of the block, through a rollback, which lowers it by
\* one, or through a visitor overwrite of the STATE key "height" itself;
\* subspace and replay protection operations, prunes and the other visitor
\* overwrites never change it, and rollback leaves every pred/{name} shadow
\* unchanged.
C39_HeightByCommitRollbackOrOverwrite ==
    [][HeightChangesOnlyBy(VisitorHeightStep)]_vars

\* A completed rollback of a block that had staged subspace and replay
\* protection operations, over a store whose shadows are present
C39_Witness ==
    /\ RolledBack
    /\ rb.last.ops # EmptyMap
    /\ rb.last.db.replay # rb.prev.db.replay
    /\ \A name \in ShadowedKeys : pred_key(name) \in DOMAIN db.state
    /\ LastHeight = rb.from - 1

\* ================================================================ the dump
\* dump_it of a column family with a height as the prefix: the entries the
\* iterator of make_iter_read_opts(Some("{h}")) yields
dump_it_height(d, cf, h) ==
    {<<cf, k, d[cf][k]>> :
        k \in {x \in DOMAIN d[cf] :
                  IF cf = "diffs" THEN in_height_prefix(h, x[1])
                  ELSE x[1] = "height" /\ in_height_prefix(h, x[2])}}

\* dump_it with the prefix "all" on REPLAY, and without a prefix
dump_it_all(d) ==
    {<<"replay", k, d.replay[k]>> : k \in {x \in DOMAIN d.replay : x[1] = "all"}}
dump_it(d, cf) == {<<cf, k, d[cf][k]>> : k \in DOMAIN d[cf]}

\* dump_block(out_file_path, historic, height) on a store that holds a
\* height: the lines written to the file
dump_block(d, historic, h) ==
    LET last_height == d.state[state_key("height")]
        chosen == IF IsSome(h) THEN Unwrap(h) ELSE last_height
    IN  (IF historic
         THEN dump_it_height(d, "diffs", chosen)
              \cup dump_it_height(d, "block", chosen)
         ELSE {})
        \cup (IF chosen # last_height
              THEN {<<"subspace", k,
                      Unwrap(read_subspace_val_with_height(d, k, chosen,
                                                           last_height))>> :
                      k \in {x \in DOMAIN d.subspace :
                                IsSome(read_subspace_val_with_height(
                                           d, x, chosen, last_height))}}
              ELSE dump_it(d, "subspace"))
        \cup (IF chosen = last_height THEN dump_it(d, "replay")
              ELSE IF chosen = last_height - 1 THEN dump_it_all(d)
              ELSE {})

\* The heights of a chain long enough for one height to be the decimal
\* prefix of another
DumpHeights == 1..10
Top(heights) == CHOOSE x \in heights : \A y \in heights : y <= x

\* Blocks that write one key or nothing, and a rollback
NextDump ==
    \/ Running /\ \E key \in DiffKeys, value \in {<<1>>} :
           Untouched(key) /\ BatchWrite(Top(DumpHeights), key, value, TRUE)
    \/ Running /\ CommitTestBlock(Top(DumpHeights))
    \/ Running /\ RollbackOneOrNone

SpecDump == Init /\ [][NextDump]_vars

\* The height a DIFFS or a height-prepended BLOCK key is stored under
HeightOfEntry(cf, k) == IF cf = "diffs" THEN k[1] ELSE k[2]
HeightEntries(d, cf) ==
    IF cf = "diffs" THEN DOMAIN d.diffs
    ELSE {x \in DOMAIN d.block : x[1] = "height"}

\* C40: dump_block with historic = true at a chosen height h writes, from
\* DIFFS and BLOCK, only the entries stored under height h, and the entries
\* of DIFFS and BLOCK that a completed rollback from L deleted are entries
\* of height L.
C40_DumpOnlyChosenHeight ==
    /\ state_key("height") \in DOMAIN db.state =>
           \A h \in DumpHeights :
               \A line \in dump_block(db, TRUE, Some(h)) :
                   line[1] \in {"diffs", "block"}
                       => HeightOfEntry(line[1], line[2]) = h
    /\ RolledBack =>
           \A cf \in {"diffs", "block"} :
               \A k \in HeightEntries(rb.last.db, cf) \ HeightEntries(db, cf) :
                   HeightOfEntry(cf, k) = rb.from

\* ========================================================= the whole model
\* Every operation with every input
Next ==
    \/ NextRead
    \/ NextWrite
    \/ NextSub
    \/ NextDiffs
    \/ NextState
    \/ NextReplay
    \/ NextRepeat
    \/ NextVolatile
    \/ NextTwice
    \/ NextIter
    \/ NextLifecycle
    \/ NextMerkle
    \/ NextConcurrent
    \/ NextVisitor
    \/ NextPrune
    \/ NextHeight
    \/ NextDump
    \/ NextOutOfBand
    \/ NextVolatileRollback
    \/ \E target \in 0..MaxHeight : Rollback(target)

Spec == Init /\ [][Next]_vars

====
